---- MODULE Spec2Model ----
(***************************************************************************)
(* A model of final_ui.py: the VariableManager (test-data draws, with and  *)
(* without combination groups), the CorrelationEngine, the                 *)
(* ConstantThroughputTimer, the RequestExecutor and the user loop.         *)
(*                                                                         *)
(* The module guards its shared state with threading.Lock objects, so the  *)
(* user contexts are modelled as preemptively scheduled threads: a context *)
(* can be interleaved with another between any two statements that touch   *)
(* shared state, and only a held lock excludes the others.                 *)
(***************************************************************************)
EXTENDS Naturals, Integers, Sequences, FiniteSets, TLC

(***************************************************************************)
(* Bounds of the model.                                                    *)
(***************************************************************************)
\* length of every registered value list
MaxLen == 2
\* number of get_value calls explored in one behaviour
MaxDraws == 6
\* transactions begun by all the users together in one behaviour
MaxRequests == 3
\* length of the value lists when whole scripts are run
ExecLen == 1
\* calls of ConstantThroughputTimer.wait explored in one behaviour
MaxCalls == 3
\* seconds the clock advances in one behaviour
MaxTime == 3
\* the longest run time the load shape is asked about, in seconds
MaxElapsed == 100
\* uuid.uuid4() calls explored in one behaviour
MaxUuids == 3

\* user_id = id(self): opaque identities of the user contexts
Users == {"u1", "u2"}
NoUser == "nobody"

(***************************************************************************)
(* Static configuration: the `variables` table and the combination group.  *)
(* The source registers OrderId1 (sequential), the address_data group and  *)
(* RandomString; the distribution type and the recycle flag are inputs of  *)
(* get_value, drawn by Init.  The group is cut to its first and its last   *)
(* declared member.                                                        *)
(***************************************************************************)
NoGroup == "-"

combination_groups ==
    [address_data |-> [variables |-> <<"AddressLine1", "LastName">>]]

VarNames == {"OrderId1", "AddressLine1", "LastName", "RandomString"}

\* names a template may ask for: the registered ones and one that is not
DrawNames == VarNames \cup {"Missing"}

\* the value list of a variable: n distinct strings
ValuesOf(name, n) == [i \in 1..n |-> name \o ToString(i - 1)]

\* the table with OrderId1 of type t and recycle flag r, the group's recycle
\* flag g, and n values for every variable
Table(t, r, g, n) ==
    [OrderId1     |-> [type |-> t, values |-> ValuesOf("OrderId1", n),
                       recycle_on_eof |-> r, combination_group |-> NoGroup],
     AddressLine1 |-> [type |-> "sequential",
                       values |-> ValuesOf("AddressLine1", n),
                       recycle_on_eof |-> g,
                       combination_group |-> "address_data"],
     LastName     |-> [type |-> "sequential",
                       values |-> ValuesOf("LastName", n),
                       recycle_on_eof |-> g,
                       combination_group |-> "address_data"],
     RandomString |-> [type |-> "random",
                       values |-> ValuesOf("RandomString", n),
                       recycle_on_eof |-> TRUE,
                       combination_group |-> NoGroup]]

Configs ==
    { Table(t, r, g, MaxLen)
      : t \in {"sequential", "unique"}, r \in BOOLEAN, g \in BOOLEAN }

VARIABLES
    variables,      \* VariableManager.variables: name -> config (static)
    indices,        \* VariableManager.indices: name -> cursor
    groupIndex,     \* combination_groups[g]["index"]
    lockHolder,     \* every Lock object: lock id -> holder or NoUser
    pc,             \* where each user context stands in its own code
    gv,             \* the get_value frame of each user
    ret,            \* what the user's latest get_value returned or raised
    acq,            \* history: acquisitions of each cursor lock so far
    draws,          \* history: get_value calls started so far
    handed,         \* history: name -> index -> successful draws of it
    row,            \* history: the indices of the group row a user is drawing
    ordered,        \* history: the user drew the group in declared order only
    gcallers,       \* history: the users that have drawn from the group
    gtakes,         \* history: successful group draws so far
    script,         \* BaseAPIUser.script: the transactions (static)
    session_store,  \* CorrelationEngine.session_store: user -> name -> value
    global_store,   \* CorrelationEngine.global_store: name -> value
    runnerQuit,     \* environment.runner.quit() has been called
    ex,             \* the execute_script / execute_request frame of each user
    xh,             \* history: what each user's executor has done so far
    timers,         \* ConstantThroughputTimer.timers: timer id -> state
    locks,          \* ConstantThroughputTimer.locks: timer id -> Lock object
    lockObject,     \* the Lock objects created by wait: object -> holder
    now,            \* time.time(), in seconds
    tw,             \* the wait frame of each user
    stamps,         \* history: timer id -> the dispatch timestamps recorded
    calls,          \* history: wait calls started so far
    stages,         \* the stage table (static)
    SMOKE_MODE,     \* the module's smoke-mode switch (static)
    ACTIVE_SCENARIOS, \* the set of active scenario ids
    SCENARIO_LOCK,  \* the holder of SCENARIO_LOCK, or NoUser
    runClock,       \* LoadTestShape.get_run_time(), in seconds
    admin,          \* the apply_scenarios frame of each administrative request
    reader,         \* the frames of tick and of scenario_selector
    gateSeen,       \* history: what each user's run_script gate last observed
    committed,      \* history: the active set the last activation left
    hdr,            \* the header-preparation frame of each user
    uuids           \* uuid.uuid4() calls so far

\* the history variables only GvTake writes
takeHist == <<handed, row, ordered, gtakes>>

\* the static configuration
cfgVars == <<variables, script>>

\* the state of the executor and of the correlation engine
execVars == <<session_store, global_store, runnerQuit, ex, xh>>

\* the state of the ConstantThroughputTimer, and the clock
timerVars == <<timers, locks, lockObject, now, tw, stamps, calls>>

\* the scenario registry, the load shape and the administrative requests
scenVars == <<stages, SMOKE_MODE, ACTIVE_SCENARIOS, SCENARIO_LOCK, runClock,
              admin, reader, gateSeen, committed>>

\* the preparation of the request headers
hdrVars == <<hdr, uuids>>

\* what no step of the executor, the stores or the timer touches
moreVars == <<scenVars, hdrVars>>

vars == <<variables, indices, groupIndex, lockHolder, pc, gv, ret, acq, draws,
          handed, row, ordered, gcallers, gtakes,
          script, session_store, global_store, runnerQuit, ex, xh,
          timers, locks, lockObject, now, tw, stamps, calls,
          stages, SMOKE_MODE, ACTIVE_SCENARIOS, SCENARIO_LOCK, runClock,
          admin, reader, gateSeen, committed, hdr, uuids>>

\* CorrelationEngine.lock
CorrLock == "corr_engine.lock"

LockIds == VarNames \cup DOMAIN combination_groups \cup {CorrLock}

NoFrame == [pc |-> "none", name |-> "", lock |-> "", idx |-> 0, ticket |-> 0]
NoRet == [name |-> "", status |-> "none", idx |-> 0, val |-> "", ticket |-> 0,
          k |-> 0]

\* a fallback that returns the bare name
PlaceholderBare(name) == name

\* f"${{{name}}}"
Placeholder(name) == "${" \o name \o "}"

Last(s) == s[Len(s)]

\* line 88: combination_group and combination_group in self.combination_groups
InGroup(name) ==
    variables[name].combination_group \in DOMAIN combination_groups

\* the lock a draw of `name` takes: group["lock"] or self.locks[name]
LockOf(name) ==
    IF InGroup(name) THEN variables[name].combination_group ELSE name

\* the cursor that lock guards
CursorOf(name) ==
    IF InGroup(name) THEN groupIndex[variables[name].combination_group]
    ELSE indices[name]

\* a response of the transport before any was received
NoResponse == [status_code |-> 0, text |-> ""]

\* the locals of execute_script and execute_request
NoExec == [iteration |-> 0, txn |-> 0, todo |-> <<>>, resolved |-> <<>>,
           response |-> NoResponse, manual |-> "none", corrs |-> <<>>]

\* history of a user's executor: the transactions begun and sent, the latest
\* outcome reported, the latest placeholder resolution, and the transaction
\* in which StopIteration was caught
NoHistory == [started |-> {}, sent |-> {},
              outcome |-> [at |-> <<>>, status_passed |-> TRUE,
                           content_passed |-> TRUE, result |-> "none"],
              resolution |-> [name |-> "", source |-> "none"],
              exhaustedAt |-> <<>>]

\* lines 268, 301, 384: the timer ids are the transaction names, each with its
\* constant_throughput_timer in requests per minute
ThroughputTargets ==
    [read |-> [timer_id |-> "Address CRUD - READ", requests_per_minute |-> 60],
     create |-> [timer_id |-> "Address CRUD - CREATE", requests_per_minute |-> 30]]

TimerIds == {ThroughputTargets[k].timer_id : k \in DOMAIN ThroughputTargets}

\* the requests per minute configured for a timer id
RpmOf(timer_id) ==
    LET k == CHOOSE k \in DOMAIN ThroughputTargets :
                 ThroughputTargets[k].timer_id = timer_id
    IN  ThroughputTargets[k].requests_per_minute

\* the locals of ConstantThroughputTimer.wait
NoWait == [timer_id |-> "", lock |-> 0, wake |-> 0, result |-> "none"]

\* the locals of the header preparation of execute_request
NoHeaders == [headers |-> <<>>, processed_headers |-> <<>>,
              unique_correlation_id |-> ""]

\* lines 237-240: the scenario ids of the stage table
ScenarioIds == {"Script_01", "Script_02"}

\* lines 237-240: one stage of the table
Stage(scenario, script_name, users, RampUp) ==
    [scenario |-> scenario, script_name |-> script_name, duration |-> 1,
     users |-> users, RampUp |-> RampUp]

\* lines 237-240: the stage table of the module
SourceStages ==
    << Stage("Script_01", "Address CRUD - READ", 2, 5),
       Stage("Script_02", "Address CRUD - CREATE", 2, 5) >>

\* the stage tables explored: the module's two stages with other user counts
\* and ramp-ups (none, shorter than the duration, longer than the duration)
StageTables ==
    { << Stage("Script_01", "Address CRUD - READ", u1, r1),
         Stage("Script_02", "Address CRUD - CREATE", u2, r2) >>
      : u1 \in {2}, u2 \in {2, 3}, r1 \in {0, 5, 90}, r2 \in {0, 5, 90} }

\* lines 565-594: the scenario each user class belongs to
ScenarioOf == [u1 |-> "Script_01", u2 |-> "Script_02"]

\* the administrative requests in flight, and the two readers that copy the
\* active set: the shape callback and the listing page
Admins == {"a1", "a2"}
CopyReaders == {"tick", "scenario_selector"}

\* the result of jsonify(...) at lines 782 and 790
NoReply == [success |-> FALSE, active |-> {}]
NoAdmin == [pc |-> "idle", selected |-> {}, response |-> NoReply]

\* a number users / ramp, kept exact
Rat(n, d) == [num |-> n, den |-> d]

\* what tick returns: None, or (total_users, spawn_rate)
StopSignal == [stop |-> TRUE, users |-> 0, rate |-> Rat(0, 1)]
Target(users, rate) == [stop |-> FALSE, users |-> users, rate |-> rate]

NoReader == [pc |-> "idle", run_time |-> 0, active |-> {}, expected |-> {},
             result |-> StopSignal]

\* history: a gate that is not inside its with block
NoGateSeen == [seen |-> FALSE, expected |-> FALSE]

\* line 248 and the idle threads
InitScenarioIdle ==
    /\ SCENARIO_LOCK = NoUser
    /\ admin = [a \in Admins |-> NoAdmin]
    /\ reader = [r \in CopyReaders |-> NoReader]
    /\ gateSeen = [u \in Users |-> NoGateSeen]

\* lines 44, 237-247: the module as it is configured, at the start of the run
InitScenario ==
    /\ InitScenarioIdle
    /\ ACTIVE_SCENARIOS = {}
    /\ committed = {}
    /\ stages = SourceStages
    /\ SMOKE_MODE = FALSE
    /\ runClock = 0

(***************************************************************************)
(* VariableManager.get_value                                               *)
(***************************************************************************)

\* lines 73-86 and 105-106: the part of get_value that takes no lock
GetValueCall(u, name) ==
    /\ gv[u].pc = "none"
    /\ draws' = draws + 1
    /\ IF name \notin DOMAIN variables
       THEN /\ ret' = [ret EXCEPT ![u] = [NoRet EXCEPT !.name = name,
                          !.status = "placeholder", !.val = Placeholder(name)]]
            /\ UNCHANGED gv
       ELSE IF variables[name].values = <<>>
       THEN /\ ret' = [ret EXCEPT ![u] = [NoRet EXCEPT !.name = name,
                          !.status = "placeholder", !.val = Placeholder(name)]]
            /\ UNCHANGED gv
       ELSE IF ~InGroup(name) /\ variables[name].type = "random"
       THEN /\ \E i \in 1..Len(variables[name].values) :
                ret' = [ret EXCEPT ![u] = [NoRet EXCEPT !.name = name,
                          !.status = "value", !.idx = i - 1,
                          !.val = variables[name].values[i]]]
            /\ UNCHANGED gv
       ELSE /\ gv' = [gv EXCEPT ![u] = [NoFrame EXCEPT !.pc = "acquire",
                          !.name = name, !.lock = LockOf(name)]]
            /\ ret' = [ret EXCEPT ![u] = [NoRet EXCEPT !.name = name,
                          !.status = "pending"]]
    /\ gcallers' = IF name \in DOMAIN variables /\ variables[name].values # <<>>
                      /\ InGroup(name)
                   THEN gcallers \cup {u} ELSE gcallers
    /\ UNCHANGED <<takeHist, variables, indices, groupIndex, lockHolder, acq,
                   timerVars,
                   moreVars>>

\* lines 90, 108, 120: with lock
GvAcquire(u) ==
    /\ gv[u].pc = "acquire"
    /\ lockHolder[gv[u].lock] = NoUser
    /\ lockHolder' = [lockHolder EXCEPT ![gv[u].lock] = u]
    /\ acq' = [acq EXCEPT ![gv[u].lock] = @ + 1]
    /\ gv' = [gv EXCEPT ![u].pc = "read", ![u].ticket = acq[gv[u].lock] + 1]
    /\ UNCHANGED <<cfgVars, takeHist, execVars, indices, groupIndex, pc, ret,
                   draws, gcallers, timerVars,
                   moreVars>>

\* the cursor with the value v
SetCursor(name, v) ==
    IF InGroup(name)
    THEN /\ groupIndex' = [groupIndex EXCEPT
                              ![variables[name].combination_group] = v]
         /\ UNCHANGED indices
    ELSE /\ indices' = [indices EXCEPT ![name] = v]
         /\ UNCHANGED groupIndex

\* a mutation of RaisesAtBound: a unique variable wraps like a recycling one
RaisesAtBoundSequentialOnly(cfg) ==
    ~cfg.recycle_on_eof /\ cfg.type = "sequential"

\* lines 93-97, 111-115, 123-126: at the bound, recycle decides: wrap or raise
RaisesAtBound(cfg) == ~cfg.recycle_on_eof

\* lines 91-97, 109-115, 121-126: read the cursor; at the bound wrap or raise
GvRead(u) ==
    LET name == gv[u].name
        cfg  == variables[name]
        idx  == CursorOf(name)
    IN  /\ gv[u].pc = "read"
        /\ IF idx >= Len(cfg.values)
           THEN IF ~RaisesAtBound(cfg)
                THEN /\ SetCursor(name, 0)
                     /\ gv' = [gv EXCEPT ![u].pc = "take", ![u].idx = 0]
                     /\ UNCHANGED <<lockHolder, ret>>
                ELSE \* raise StopIteration: the with block releases the lock
                     /\ gv' = [gv EXCEPT ![u] = NoFrame]
                     /\ lockHolder' = [lockHolder EXCEPT ![gv[u].lock] = NoUser]
                     /\ ret' = [ret EXCEPT ![u] = [NoRet EXCEPT !.name = name,
                                   !.status = "exhausted",
                                   !.ticket = gv[u].ticket]]
                     /\ UNCHANGED <<indices, groupIndex>>
           ELSE /\ gv' = [gv EXCEPT ![u].pc = "take", ![u].idx = idx]
                /\ UNCHANGED <<indices, groupIndex, lockHolder, ret>>
        /\ UNCHANGED <<cfgVars, takeHist, execVars, pc, acq, draws, gcallers,
                       timerVars,
                   moreVars>>

\* the members of the group of `name`, in declared order
Members(name) == combination_groups[variables[name].combination_group].variables

\* the place of `name` in its group's declared order
Position(name) == CHOOSE p \in 1..Len(Members(name)) : Members(name)[p] = name

\* history: `name` is the member the user is due to draw next in declared order
InTurn(u, name) ==
    Position(name) = (IF Len(row[u]) = Len(Members(name)) THEN 1
                      ELSE Len(row[u]) + 1)

\* history: the row that the next successful group draw belongs to when the
\* group has been drawn row after row (1 for the first row)
RowNumber(name) == (gtakes \div Len(Members(name))) + 1

\* a mutation of NextCursor: the cursor skips a value
NextCursorSkips(i) == i + 2

\* lines 101, 117, 128: += 1
NextCursor(i) == i + 1

\* a mutation of Advances: every member of a group advances the row
AdvancesAlways(name) == TRUE

\* a mutation of Advances: the first declared member advances the row
AdvancesOnFirst(name) ==
    IF InGroup(name) THEN name = Members(name)[1] ELSE TRUE

\* line 100: name == group["variables"][-1]; a plain variable always advances
Advances(name) ==
    IF InGroup(name)
    THEN name = Last(Members(name))
    ELSE TRUE

\* lines 98-102, 116-118, 127-129: read the value, advance, release, return
GvTake(u) ==
    LET name == gv[u].name
        cfg  == variables[name]
    IN  /\ gv[u].pc = "take"
        /\ IF Advances(name)
           THEN SetCursor(name, NextCursor(CursorOf(name)))
           ELSE UNCHANGED <<indices, groupIndex>>
        /\ lockHolder' = [lockHolder EXCEPT ![gv[u].lock] = NoUser]
        /\ ret' = [ret EXCEPT ![u] = [name |-> name, status |-> "value",
                      idx |-> gv[u].idx, val |-> cfg.values[gv[u].idx + 1],
                      ticket |-> gv[u].ticket,
                      k |-> IF InGroup(name) THEN RowNumber(name) ELSE 0]]
        /\ gv' = [gv EXCEPT ![u] = NoFrame]
        /\ handed' = [handed EXCEPT ![name][gv[u].idx] = @ + 1]
        /\ IF InGroup(name)
           THEN /\ gtakes' = gtakes + 1
                /\ ordered' = [ordered EXCEPT ![u] = @ /\ InTurn(u, name)]
                /\ row' = [row EXCEPT ![u] =
                              IF ~(ordered[u] /\ InTurn(u, name)) THEN <<>>
                              ELSE IF Position(name) = 1 THEN <<gv[u].idx>>
                              ELSE Append(@, gv[u].idx)]
           ELSE UNCHANGED <<gtakes, ordered, row>>
        /\ UNCHANGED <<cfgVars, execVars, pc, acq, draws, gcallers, timerVars,
                   moreVars>>

(***************************************************************************)
(* CorrelationEngine                                                       *)
(***************************************************************************)

\* the absent result of dict.get and of re.search
None == [some |-> FALSE, val |-> ""]
Some(v) == [some |-> TRUE, val |-> v]

\* Python truth of `if corr_value:` for None and for str
Truthy(r) == r.some /\ r.val # ""

Digits == {"0", "1", "2", "3", "4", "5", "6", "7", "8", "9"}

\* the end of the longest run of digits of text that starts at position i
RECURSIVE DigitRunEnd(_, _)
DigitRunEnd(text, i) ==
    IF i <= Len(text) /\ SubSeq(text, i, i) \in Digits
    THEN DigitRunEnd(text, i + 1)
    ELSE i - 1

\* the positions of text where the literal lit starts
Occurrences(lit, text) ==
    {i \in 1..(Len(text) + 1 - Len(lit)) : SubSeq(text, i, i + Len(lit) - 1) = lit}

Min(S) == CHOOSE x \in S : \A y \in S : x <= y

\* line 477: expected_content in response.text
Contains(needle, text) == Occurrences(needle, text) # {}

\* the correlation rule's regex id=(\d*): a literal, then one capture group
\* of any number of digits
IdPattern == [literal |-> "id=", group |-> TRUE]

\* a search that finds an empty match wherever the literal is absent
ReSearchEmptyMatch(pattern, text) == Some("")

\* lines 144-146: re.search(pattern, response_text), then group(1) if the
\* pattern has a group, else group(0); the leftmost match, the group greedy
ReSearch(pattern, text) ==
    IF Occurrences(pattern.literal, text) = {} THEN None
    ELSE LET i == Min(Occurrences(pattern.literal, text))
             j == i + Len(pattern.literal)
             e == DigitRunEnd(text, j)
         IN  IF pattern.group THEN Some(SubSeq(text, j, e))
             ELSE Some(SubSeq(text, i, e))

\* a dict with key k set to v
Put(d, k, v) == [x \in DOMAIN d \cup {k} |-> IF x = k THEN v ELSE d[x]]

\* dict.get(k)
Get(d, k) == IF k \in DOMAIN d THEN Some(d[k]) ELSE None

\* lines 157-164: CorrelationEngine.get_value
CorrGetValue(var_name, scope, user_id) ==
    IF scope = "global" THEN Get(global_store, var_name)
    ELSE IF user_id \in DOMAIN session_store
         THEN Get(session_store[user_id], var_name)
         ELSE None

\* a session store that is not partitioned by user: the value goes to every
\* user's partition
SessionStoredShared(user_id, var_name, value) ==
    [w \in DOMAIN session_store \cup {user_id} |->
        Put(IF w \in DOMAIN session_store THEN session_store[w] ELSE <<>>,
            var_name, value)]

\* lines 151-153: the session-scope branch of extract_and_store
SessionStored(user_id, var_name, value) ==
    Put(session_store, user_id,
        Put(IF user_id \in DOMAIN session_store THEN session_store[user_id]
            ELSE <<>>, var_name, value))

(***************************************************************************)
(* The VariableStore contract on its own: every user context calls         *)
(* get_value with any name, in any order, concurrently.                    *)
(***************************************************************************)
ApiDraw(u) ==
    /\ pc[u] = "api"
    /\ draws < MaxDraws
    /\ \E name \in DrawNames : GetValueCall(u, name)
    /\ UNCHANGED <<pc, script, execVars>>

\* lines 53-57, 137-140, 197-199, 224-233: the module-level instances after
\* every variable and the group are registered
InitStores ==
    /\ indices = [n \in VarNames |-> 0]
    /\ groupIndex = [g \in DOMAIN combination_groups |-> 0]
    /\ lockHolder = [l \in LockIds |-> NoUser]
    /\ gv = [u \in Users |-> NoFrame]
    /\ ret = [u \in Users |-> NoRet]
    /\ acq = [l \in LockIds |-> 0]
    /\ draws = 0
    /\ handed = [n \in VarNames |-> [i \in 0..(MaxLen - 1) |-> 0]]
    /\ row = [u \in Users |-> <<>>]
    /\ ordered = [u \in Users |-> TRUE]
    /\ gcallers = {}
    /\ gtakes = 0
    /\ session_store = <<>>
    /\ global_store = <<>>
    /\ runnerQuit = FALSE
    /\ ex = [u \in Users |-> NoExec]
    /\ xh = [u \in Users |-> NoHistory]
    /\ timers = <<>>
    /\ locks = <<>>
    /\ lockObject = <<>>
    /\ now = 1
    /\ tw = [u \in Users |-> NoWait]
    /\ stamps = [t \in TimerIds |-> <<>>]
    /\ calls = 0
    /\ hdr = [u \in Users |-> NoHeaders]
    /\ uuids = 0

InitVM ==
    /\ InitStores
    /\ InitScenario
    /\ variables \in Configs
    /\ script = <<>>
    /\ pc = [u \in Users |-> "api"]

NextVM ==
    \E u \in Users :
        \/ ApiDraw(u)
        \/ GvAcquire(u)
        \/ GvRead(u)
        \/ GvTake(u)

SpecVM == InitVM /\ [][NextVM]_vars

\* line 81: values = config.get("values", []): the tables in which one
\* registered variable, a member of the group or not, has no values
EmptyValueConfigs ==
    { [Table("sequential", r, r, MaxLen) EXCEPT ![n].values = <<>>]
      : n \in VarNames, r \in BOOLEAN }

InitDraw ==
    /\ InitStores
    /\ InitScenario
    /\ variables \in EmptyValueConfigs
    /\ script = <<>>
    /\ pc = [u \in Users |-> "api"]

\* the same calls as under SpecVM, on a table with a gap
SpecDraw == InitDraw /\ [][NextVM]_vars

\* lines 59-63, 81-82: every variable is registered with its own value list
\* and its own recycle flag: the tables in which the two members of the
\* group differ in length (one value against MaxLen), or have one value each
\* and differ in the flag
MixedGroupConfigs ==
    { [Table("sequential", gA, gA, 1) EXCEPT
          !.AddressLine1.values = ValuesOf("AddressLine1", nA),
          !.LastName.values = ValuesOf("LastName", nL),
          !.LastName.recycle_on_eof = gL]
      : <<nA, nL, gA, gL>> \in
          { c \in {1, MaxLen} \X {1, MaxLen} \X BOOLEAN \X BOOLEAN :
              \/ c[1] # c[2]
              \/ c[1] = 1 /\ c[3] # c[4] } }

InitMixed ==
    /\ InitStores
    /\ InitScenario
    /\ variables \in MixedGroupConfigs
    /\ script = <<>>
    /\ pc = [u \in Users |-> "api"]

\* the same calls as under SpecVM, on a group of unlike members
SpecMixed == InitMixed /\ [][NextVM]_vars

(***************************************************************************)
(* RequestExecutor and BaseAPIUser.execute_script                          *)
(***************************************************************************)

\* what the transport may answer
StatusCodes == {200, 500}
ResponseTexts == {"ok id=42", "ok id=", "error"}

\* the declared checks of a transaction: any subset of status and content
ChecksConfigs ==
    { <<>>, [status |-> 200], [content |-> "ok"],
      [status |-> 200, content |-> "ok"] }

\* the scripts explored: a transaction with the placeholders of the READ of
\* Script_01, any checks and one correlation rule into OrderId1, then one
\* with the placeholders of the CREATE of Script_02.  A transaction is given
\* by the placeholders of its url, headers and body in the order they are
\* substituted.  These configurations carry no constant_throughput_timer
\* key, so line 382 skips the wait; the wait is explored under SpecTimer
\* and, inside the executor, under SpecRun.
Scripts ==
    { << [transaction_name |-> "Address CRUD - READ",
          placeholders |-> <<"OrderId1">>,
          checks |-> c,
          correlations |-> << [regex |-> IdPattern, variable |-> "OrderId1",
                               scope |-> sc] >>],
         [transaction_name |-> "Address CRUD - CREATE",
          placeholders |-> <<"AddressLine1", "LastName">>,
          checks |-> [status |-> 200],
          correlations |-> <<>>] >>
      : c \in ChecksConfigs, sc \in {"session", "global"} }

\* the transaction a user is executing
Txn(u) == script[ex[u].txn]
At(u) == <<ex[u].iteration, ex[u].txn>>

\* history: the transactions begun so far by all the users
Begun == Cardinality(UNION {{<<u, a>> : a \in xh[u].started} : u \in Users})

\* lines 541-543: execute_script begins an iteration (the task is not started
\* again once the runner has quit); `from` is where its caller stands
BeginIteration(u, from) ==
    /\ pc[u] = from
    /\ ~runnerQuit
    /\ Begun < MaxRequests
    /\ ex' = [ex EXCEPT ![u] = [NoExec EXCEPT !.iteration = ex[u].iteration + 1,
                                              !.txn = 1]]
    /\ pc' = [pc EXCEPT ![u] = "request"]
    /\ UNCHANGED <<cfgVars, takeHist, indices, groupIndex, lockHolder, gv, ret,
                   acq, draws, gcallers, session_store, global_store,
                   runnerQuit, xh, timerVars,
                   moreVars>>

\* execute_script called as the task itself
ExecuteScript(u) == BeginIteration(u, "task")

\* a run_script that calls execute_script without the gate
RunScriptUngated(u) == BeginIteration(u, "task")

\* lines 578, 594: run_script calls execute_script once the gate is passed
RunScript(u) == BeginIteration(u, "admitted")

\* line 382: the transaction goes through the throughput timer
HasTimer(transaction_config) ==
    ~SMOKE_MODE /\ "constant_throughput_timer" \in DOMAIN transaction_config

\* lines 550-552 and 375-390: the loop head of execute_script and the start
\* of execute_request, up to the call of the throughput timer if one is
\* declared
ExecuteRequest(u) ==
    /\ pc[u] = "request"
    /\ IF ex[u].txn > Len(script)
       THEN /\ pc' = [pc EXCEPT ![u] = "task"]
            /\ ex' = [ex EXCEPT ![u].txn = 0]
            /\ UNCHANGED xh
       ELSE /\ Begun < MaxRequests
            /\ pc' = [pc EXCEPT ![u] = IF HasTimer(Txn(u)) THEN "gate"
                                       ELSE "resolve"]
            /\ ex' = [ex EXCEPT ![u].todo = Txn(u).placeholders,
                                ![u].resolved = <<>>,
                                ![u].response = NoResponse,
                                ![u].manual = "none"]
            /\ xh' = [xh EXCEPT ![u].started = @ \cup {At(u)}]
    /\ UNCHANGED <<cfgVars, takeHist, indices, groupIndex, lockHolder, gv, ret,
                   acq, draws, gcallers, session_store, global_store,
                   runnerQuit, timerVars,
                   moreVars>>

\* lines 351-359: which source replacer takes the value of ${name} from
Resolution(name, user_id) ==
    IF Truthy(CorrGetValue(name, "session", user_id)) THEN "session"
    ELSE IF Truthy(CorrGetValue(name, "global", user_id)) THEN "global"
    ELSE "variable"

\* history: what the stores held for `name` when it was resolved
Seen(name, u, source) ==
    [name |-> name, source |-> source,
     session |-> CorrGetValue(name, "session", u),
     global |-> CorrGetValue(name, "global", u),
     val |-> ""]

\* lines 349-359: replacer for the next placeholder of the template
SubstituteVariables(u) ==
    LET name == Head(ex[u].todo)
        src  == Resolution(name, u)
    IN  /\ pc[u] = "resolve"
        /\ ex[u].todo # <<>>
        /\ IF src = "variable"
           THEN /\ GetValueCall(u, name)
                /\ pc' = [pc EXCEPT ![u] = "drawing"]
                /\ xh' = [xh EXCEPT ![u].resolution = Seen(name, u, "pending")]
                /\ UNCHANGED ex
           ELSE /\ ex' = [ex EXCEPT
                            ![u].todo = Tail(@),
                            ![u].resolved =
                                Append(@, CorrGetValue(name, src, u).val)]
                /\ xh' = [xh EXCEPT ![u].resolution =
                            [Seen(name, u, src) EXCEPT
                                !.val = CorrGetValue(name, src, u).val]]
                /\ UNCHANGED <<takeHist, pc, gv, ret, draws, gcallers,
                               variables, indices, groupIndex, lockHolder, acq,
                               timerVars,
                   moreVars>>
        /\ UNCHANGED <<script, session_store, global_store, runnerQuit>>

\* line 359: var_manager.get_value returns, or raises StopIteration
SubstituteReturn(u) ==
    /\ pc[u] = "drawing"
    /\ gv[u].pc = "none"
    /\ IF ret[u].status = "exhausted"
       THEN /\ pc' = [pc EXCEPT ![u] = "except"]
            /\ xh' = [xh EXCEPT ![u].exhaustedAt = At(u),
                                ![u].resolution.source = "exhausted"]
            /\ UNCHANGED ex
       ELSE /\ pc' = [pc EXCEPT ![u] = "resolve"]
            /\ ex' = [ex EXCEPT ![u].todo = Tail(@),
                                ![u].resolved = Append(@, ret[u].val)]
            /\ xh' = [xh EXCEPT ![u].resolution.source = ret[u].status,
                                ![u].resolution.val = ret[u].val]
    /\ UNCHANGED <<cfgVars, takeHist, indices, groupIndex, lockHolder, gv, ret,
                   acq, draws, gcallers, session_store, global_store,
                   runnerQuit, timerVars,
                   moreVars>>

\* a mutation of AfterStopIteration: `continue` in the place of `break`
AfterStopIterationContinue(txn) == txn + 1

\* line 555: break leaves the loop over the script
AfterStopIteration(txn) == Len(script) + 1

\* lines 553-555: except StopIteration: runner.quit(); break
ExceptStopIteration(u) ==
    /\ pc[u] = "except"
    /\ runnerQuit' = TRUE
    /\ ex' = [ex EXCEPT ![u].txn = AfterStopIteration(ex[u].txn)]
    /\ pc' = [pc EXCEPT ![u] = "request"]
    /\ UNCHANGED <<cfgVars, takeHist, indices, groupIndex, lockHolder, gv, ret,
                   acq, draws, gcallers, session_store, global_store, xh,
                   timerVars,
                   moreVars>>

\* lines 453-473: the status check calls response.failure or response.success
AfterStatusCheck(manual, checks, response) ==
    IF "status" \in DOMAIN checks
    THEN IF response.status_code # checks.status THEN "failure" ELSE "success"
    ELSE manual

\* lines 475-495: the content check calls response.failure or response.success
AfterContentCheck(manual, checks, response) ==
    IF "content" \in DOMAIN checks
    THEN IF ~Contains(checks.content, response.text) THEN "failure"
         ELSE "success"
    ELSE manual

\* lines 450-495: both checks, the status check first
PerformChecks(manual, checks, response) ==
    AfterContentCheck(AfterStatusCheck(manual, checks, response),
                      checks, response)

\* rules that are dropped when a check has failed
PendingCorrelationsUnlessFailed(transaction_config, manual) ==
    IF manual = "failure" THEN <<>> ELSE transaction_config.correlations

\* lines 498-499: the rules the loop over transaction_config["correlations"]
\* goes through; the statement is reached whatever the checks called
PendingCorrelations(transaction_config, manual) ==
    transaction_config.correlations

\* lines 438-495: the transport sends the request and answers, and the checks
\* are evaluated on the response
SendRequest(u) ==
    /\ pc[u] = "resolve"
    /\ ex[u].todo = <<>>
    /\ \E code \in StatusCodes, text \in ResponseTexts :
          LET response == [status_code |-> code, text |-> text]
              manual == PerformChecks("none", Txn(u).checks, response)
          IN  ex' = [ex EXCEPT
                       ![u].response = response,
                       ![u].manual = manual,
                       ![u].corrs = PendingCorrelations(Txn(u), manual)]
    /\ xh' = [xh EXCEPT ![u].sent = @ \cup {At(u)}]
    /\ pc' = [pc EXCEPT ![u] = "correlate"]
    /\ UNCHANGED <<cfgVars, takeHist, indices, groupIndex, lockHolder, gv, ret,
                   acq, draws, gcallers, session_store, global_store,
                   runnerQuit, timerVars,
                   moreVars>>

\* lines 498-506 and 142-155: extract_and_store for the next correlation
\* rule; the global scope goes on to take the engine's lock
ExtractAndStore(u) ==
    LET corr  == Head(ex[u].corrs)
        match == ReSearch(corr.regex, ex[u].response.text)
    IN  /\ pc[u] = "correlate"
        /\ ex[u].corrs # <<>>
        /\ IF ~match.some
           THEN /\ ex' = [ex EXCEPT ![u].corrs = Tail(@)]
                /\ UNCHANGED <<pc, session_store>>
           ELSE IF corr.scope = "global"
           THEN /\ pc' = [pc EXCEPT ![u] = "corr_lock"]
                /\ UNCHANGED <<ex, session_store>>
           ELSE /\ session_store' = SessionStored(u, corr.variable, match.val)
                /\ ex' = [ex EXCEPT ![u].corrs = Tail(@)]
                /\ UNCHANGED pc
        /\ UNCHANGED <<cfgVars, takeHist, indices, groupIndex, lockHolder, gv,
                       ret, acq, draws, gcallers, global_store, runnerQuit, xh,
                       timerVars,
                   moreVars>>

\* line 148: with self.lock
CorrAcquire(u) ==
    /\ pc[u] = "corr_lock"
    /\ lockHolder[CorrLock] = NoUser
    /\ lockHolder' = [lockHolder EXCEPT ![CorrLock] = u]
    /\ pc' = [pc EXCEPT ![u] = "corr_store"]
    /\ UNCHANGED <<cfgVars, takeHist, execVars, indices, groupIndex, gv, ret,
                   acq, draws, gcallers, timerVars,
                   moreVars>>

\* line 149: self.global_store[var_name] = value, and the lock is released
CorrStoreGlobal(u) ==
    LET corr  == Head(ex[u].corrs)
        match == ReSearch(corr.regex, ex[u].response.text)
    IN  /\ pc[u] = "corr_store"
        /\ global_store' = Put(global_store, corr.variable, match.val)
        /\ lockHolder' = [lockHolder EXCEPT ![CorrLock] = NoUser]
        /\ ex' = [ex EXCEPT ![u].corrs = Tail(@)]
        /\ pc' = [pc EXCEPT ![u] = "correlate"]
        /\ UNCHANGED <<cfgVars, takeHist, indices, groupIndex, gv, ret, acq,
                       draws, gcallers, session_store, runnerQuit, xh,
                       timerVars,
                   moreVars>>

\* the outcome the response context manager reports when its block is left:
\* the latest of response.success() and response.failure(), else the
\* transport's own verdict on the status code
Reported(manual, response) ==
    IF manual # "none" THEN manual
    ELSE IF response.status_code >= 400 THEN "failure" ELSE "success"

\* history: the declared status check passes on the response
StatusPassed(checks, response) ==
    "status" \in DOMAIN checks => response.status_code = checks.status

\* history: the declared content check passes on the response
ContentPassed(checks, response) ==
    "content" \in DOMAIN checks => Contains(checks.content, response.text)

\* lines 446-511 and 550: the `with self.client.request(...)` block is left and
\* the outcome reported; think time; then the next transaction of the script
ExitResponse(u) ==
    /\ pc[u] = "correlate"
    /\ ex[u].corrs = <<>>
    /\ xh' = [xh EXCEPT ![u].outcome =
                [at |-> At(u),
                 status_passed |-> StatusPassed(Txn(u).checks, ex[u].response),
                 content_passed |-> ContentPassed(Txn(u).checks, ex[u].response),
                 result |-> Reported(ex[u].manual, ex[u].response)]]
    /\ ex' = [ex EXCEPT ![u].txn = @ + 1, ![u].response = NoResponse,
                        ![u].manual = "none", ![u].resolved = <<>>]
    /\ pc' = [pc EXCEPT ![u] = "request"]
    /\ UNCHANGED <<cfgVars, takeHist, indices, groupIndex, lockHolder, gv, ret,
                   acq, draws, gcallers, session_store, global_store,
                   runnerQuit, timerVars,
                   moreVars>>

\* the variable tables explored with the executor
ExecConfigs == {Table("sequential", r, r, ExecLen) : r \in BOOLEAN}

InitExec ==
    /\ InitStores
    /\ InitScenario
    /\ variables \in ExecConfigs
    /\ script \in Scripts
    /\ pc = [u \in Users |-> "task"]

NextExec ==
    \E u \in Users :
        \/ ExecuteScript(u)
        \/ ExecuteRequest(u)
        \/ SubstituteVariables(u)
        \/ SubstituteReturn(u)
        \/ GvAcquire(u)
        \/ GvRead(u)
        \/ GvTake(u)
        \/ ExceptStopIteration(u)
        \/ SendRequest(u)
        \/ ExtractAndStore(u)
        \/ CorrAcquire(u)
        \/ CorrStoreGlobal(u)
        \/ ExitResponse(u)

SpecExec == InitExec /\ [][NextExec]_vars

(***************************************************************************)
(* The CorrelationEngine contract on its own: every user context calls     *)
(* extract_and_store with any response body, variable name and scope,      *)
(* concurrently.                                                           *)
(***************************************************************************)

\* the variable names rules extract into
CorrNames == {"OrderId1", "token"}
Scopes == {"session", "global"}

\* lines 154-155: what extract_and_store returns for a response body
ExtractResult(response_text, pattern) == ReSearch(pattern, response_text)

\* line 142: extract_and_store(response_text, pattern, var_name, scope, user_id)
ApiExtract(u) ==
    /\ pc[u] = "capi"
    /\ \E text \in ResponseTexts, var_name \in CorrNames, scope \in Scopes :
          ex' = [ex EXCEPT
                   ![u].response = [status_code |-> 200, text |-> text],
                   ![u].corrs = << [regex |-> IdPattern, variable |-> var_name,
                                    scope |-> scope] >>]
    /\ pc' = [pc EXCEPT ![u] = "correlate"]
    /\ UNCHANGED <<cfgVars, takeHist, indices, groupIndex, lockHolder, gv, ret,
                   acq, draws, gcallers, session_store, global_store,
                   runnerQuit, xh, timerVars,
                   moreVars>>

\* lines 154-155: extract_and_store returns to its caller
ApiExtractReturn(u) ==
    /\ pc[u] = "correlate"
    /\ ex[u].corrs = <<>>
    /\ ex' = [ex EXCEPT ![u] = NoExec]
    /\ pc' = [pc EXCEPT ![u] = "capi"]
    /\ UNCHANGED <<cfgVars, takeHist, indices, groupIndex, lockHolder, gv, ret,
                   acq, draws, gcallers, session_store, global_store,
                   runnerQuit, xh, timerVars,
                   moreVars>>

InitCorr ==
    /\ InitStores
    /\ InitScenario
    /\ variables \in {Table("sequential", TRUE, TRUE, MaxLen)}
    /\ script = <<>>
    /\ pc = [u \in Users |-> "capi"]

NextCorr ==
    \E u \in Users :
        \/ ApiExtract(u)
        \/ ExtractAndStore(u)
        \/ CorrAcquire(u)
        \/ CorrStoreGlobal(u)
        \/ ApiExtractReturn(u)

SpecCorr == InitCorr /\ [][NextCorr]_vars

(***************************************************************************)
(* ConstantThroughputTimer.wait, with the clock.  Time is counted in whole *)
(* seconds from the start of the run; time.time() is positive.             *)
(***************************************************************************)

\* line 181: target_interval = 60.0 / requests_per_minute
TargetInterval(requests_per_minute) == 60 \div requests_per_minute

\* line 186: sleep_time = max(0, target_interval - elapsed)
SleepTime(target_interval, elapsed) ==
    IF target_interval >= elapsed THEN target_interval - elapsed ELSE 0

\* line 176: wait is called and tests `timer_id not in self.timers`
WaitCall(u, timer_id) ==
    /\ pc[u] = "gate"
    /\ calls < MaxCalls
    /\ calls' = calls + 1
    /\ tw' = [tw EXCEPT ![u] = [NoWait EXCEPT !.timer_id = timer_id]]
    /\ pc' = [pc EXCEPT ![u] = IF timer_id \notin DOMAIN timers
                               THEN "new_timer" ELSE "lookup"]
    /\ UNCHANGED <<timers, locks, lockObject, now, stamps>>

\* line 177: self.timers[timer_id] = {"last_request": 0, "count": 0}
WaitNewTimer(u) ==
    /\ pc[u] = "new_timer"
    /\ timers' = Put(timers, tw[u].timer_id, [last_request |-> 0, count |-> 0])
    /\ pc' = [pc EXCEPT ![u] = "new_lock"]
    /\ UNCHANGED <<locks, lockObject, now, tw, stamps, calls>>

\* line 178: self.locks[timer_id] = Lock(), a new Lock object
WaitNewLock(u) ==
    LET obj == Cardinality(DOMAIN lockObject) + 1
    IN  /\ pc[u] = "new_lock"
        /\ lockObject' = Put(lockObject, obj, NoUser)
        /\ locks' = Put(locks, tw[u].timer_id, obj)
        /\ pc' = [pc EXCEPT ![u] = "lookup"]
        /\ UNCHANGED <<timers, now, tw, stamps, calls>>

\* a return from wait that goes past the resolution and the dispatch
AfterWaitSkipsDispatch(u) == IF ex[u].txn = 0 THEN "gate" ELSE "correlate"

\* where wait returns to: its caller in execute_request (line 388), or the
\* free caller of SpecTimer
AfterWait(u) == IF ex[u].txn = 0 THEN "gate" ELSE "resolve"

\* where a KeyError raised by wait ends: it leaves execute_request and
\* execute_script (which catches StopIteration only) and ends the task
AfterKeyError(u) == IF ex[u].txn = 0 THEN "gate" ELSE "task"

\* line 180: self.locks[timer_id] is evaluated (KeyError when the creator of
\* the timer state has not stored the lock yet)
WaitLookup(u) ==
    /\ pc[u] = "lookup"
    /\ IF tw[u].timer_id \in DOMAIN locks
       THEN /\ tw' = [tw EXCEPT ![u].lock = locks[tw[u].timer_id]]
            /\ pc' = [pc EXCEPT ![u] = "acquire"]
       ELSE /\ tw' = [tw EXCEPT ![u].result = "KeyError"]
            /\ pc' = [pc EXCEPT ![u] = AfterKeyError(u)]
    /\ UNCHANGED <<timers, locks, lockObject, now, stamps, calls>>

\* line 180: with: the Lock object is acquired
WaitAcquire(u) ==
    /\ pc[u] = "acquire"
    /\ lockObject[tw[u].lock] = NoUser
    /\ lockObject' = [lockObject EXCEPT ![tw[u].lock] = u]
    /\ pc' = [pc EXCEPT ![u] = "locked"]
    /\ UNCHANGED <<timers, locks, now, tw, stamps, calls>>

\* lines 181-188: the time since the last dispatch is measured and the caller
\* sleeps for what is left of the interval
WaitMeasure(u) ==
    LET timer == timers[tw[u].timer_id]
        target_interval == TargetInterval(RpmOf(tw[u].timer_id))
        current_time == now
        sleep_time == SleepTime(target_interval, current_time - timer.last_request)
    IN  /\ pc[u] = "locked"
        /\ IF timer.last_request > 0 /\ sleep_time > 0
           THEN /\ tw' = [tw EXCEPT ![u].wake = current_time + sleep_time]
                /\ pc' = [pc EXCEPT ![u] = "sleep"]
           ELSE /\ pc' = [pc EXCEPT ![u] = "stamp"]
                /\ UNCHANGED tw
        /\ UNCHANGED <<timers, locks, lockObject, now, stamps, calls>>

\* line 188: time.sleep returns once the time asked for has passed
WaitWake(u) ==
    /\ pc[u] = "sleep"
    /\ now >= tw[u].wake
    /\ pc' = [pc EXCEPT ![u] = "stamp"]
    /\ UNCHANGED <<timers, locks, lockObject, now, tw, stamps, calls>>

\* lines 190-191: the dispatch is stamped and counted, and the lock released
WaitStamp(u) ==
    LET timer_id == tw[u].timer_id
    IN  /\ pc[u] = "stamp"
        /\ timers' = [timers EXCEPT ![timer_id] =
                         [last_request |-> now, count |-> @.count + 1]]
        /\ stamps' = [stamps EXCEPT ![timer_id] = Append(@, now)]
        /\ lockObject' = [lockObject EXCEPT ![tw[u].lock] = NoUser]
        /\ tw' = [tw EXCEPT ![u].result = "dispatched"]
        /\ pc' = [pc EXCEPT ![u] = AfterWait(u)]
        /\ UNCHANGED <<locks, now, calls>>

\* the clock advances
Tick ==
    /\ now < MaxTime + 1
    /\ now' = now + 1
    /\ UNCHANGED <<pc, timers, locks, lockObject, tw, stamps, calls>>

\* what no step of the timer touches
notTimer == <<cfgVars, execVars, takeHist, indices, groupIndex, lockHolder,
              gv, ret, acq, draws, gcallers, moreVars>>

InitTimer ==
    /\ InitStores
    /\ InitScenario
    /\ variables \in {Table("sequential", TRUE, TRUE, MaxLen)}
    /\ script = <<>>
    /\ pc = [u \in Users |-> "gate"]

NextTimer ==
    \/ \E u \in Users :
        \/ \E timer_id \in TimerIds : WaitCall(u, timer_id) /\ UNCHANGED notTimer
        \/ WaitNewTimer(u) /\ UNCHANGED notTimer
        \/ WaitNewLock(u) /\ UNCHANGED notTimer
        \/ WaitLookup(u) /\ UNCHANGED notTimer
        \/ WaitAcquire(u) /\ UNCHANGED notTimer
        \/ WaitMeasure(u) /\ UNCHANGED notTimer
        \/ WaitWake(u) /\ UNCHANGED notTimer
        \/ WaitStamp(u) /\ UNCHANGED notTimer
    \/ Tick /\ UNCHANGED notTimer

SpecTimer == InitTimer /\ [][NextTimer]_vars

(***************************************************************************)
(* A user running a script whose transactions go through the throughput   *)
(* timer, while another user context calls the timer of the first          *)
(* transaction: the executor, the stores and the timer together.           *)
(***************************************************************************)

\* lines 254-303: the READ transaction of Script_01 and the CREATE
\* transaction of Script_02 in one script, each with its throughput timer;
\* the READ carries a correlation rule
TimedScripts ==
    { << [transaction_name |-> ThroughputTargets.read.timer_id,
          constant_throughput_timer |->
              ThroughputTargets.read.requests_per_minute,
          placeholders |-> <<"OrderId1">>,
          checks |-> [status |-> 200],
          correlations |-> << [regex |-> IdPattern, variable |-> "OrderId1",
                               scope |-> "global"] >>],
         [transaction_name |-> ThroughputTargets.create.timer_id,
          constant_throughput_timer |->
              ThroughputTargets.create.requests_per_minute,
          placeholders |-> <<"AddressLine1", "LastName">>,
          checks |-> [status |-> 200],
          correlations |-> <<>>] >> }

\* lines 382-385: execute_request calls throughput_timer.wait(rpm, timer_id)
ThroughputWait(u) ==
    /\ ex[u].txn \in DOMAIN script
    /\ WaitCall(u, Txn(u).transaction_name)

\* lines 382-385 in another user context: a user that is in the READ
\* transaction of its own script reaches the timer, once
OtherUserWait(u) ==
    /\ ex[u].txn = 0
    /\ tw[u] = NoWait
    /\ WaitCall(u, ThroughputTargets.read.timer_id)

\* the variable table explored: no recycling, so that a second iteration can
\* run into exhaustion
RunConfigs == {Table("sequential", FALSE, FALSE, ExecLen)}

\* the user that runs the script
Runner == "u1"

InitRun ==
    /\ InitStores
    /\ InitScenario
    /\ variables \in RunConfigs
    /\ script \in TimedScripts
    /\ pc = [u \in Users |-> IF u = Runner THEN "task" ELSE "gate"]

NextRun ==
    \/ \E u \in Users :
        \/ ExecuteScript(u)
        \/ ExecuteRequest(u)
        \/ ThroughputWait(u) /\ UNCHANGED notTimer
        \/ OtherUserWait(u) /\ UNCHANGED notTimer
        \/ WaitNewTimer(u) /\ UNCHANGED notTimer
        \/ WaitNewLock(u) /\ UNCHANGED notTimer
        \/ WaitLookup(u) /\ UNCHANGED notTimer
        \/ WaitAcquire(u) /\ UNCHANGED notTimer
        \/ WaitMeasure(u) /\ UNCHANGED notTimer
        \/ WaitWake(u) /\ UNCHANGED notTimer
        \/ WaitStamp(u) /\ UNCHANGED notTimer
        \/ SubstituteVariables(u)
        \/ SubstituteReturn(u)
        \/ GvAcquire(u)
        \/ GvRead(u)
        \/ GvTake(u)
        \/ ExceptStopIteration(u)
        \/ SendRequest(u)
        \/ ExtractAndStore(u)
        \/ CorrAcquire(u)
        \/ CorrStoreGlobal(u)
        \/ ExitResponse(u)
    \/ Tick /\ UNCHANGED notTimer

SpecRun == InitRun /\ [][NextRun]_vars

(***************************************************************************)
(* The scenario registry: apply_scenarios, the readers of the active set   *)
(* (run_script, tick, scenario_selector) and the load shape.               *)
(***************************************************************************)

\* what no step of the scenario registry or of the load shape touches
notScenario == <<cfgVars, execVars, takeHist, timerVars, hdrVars, indices,
                 groupIndex, lockHolder, gv, ret, acq, draws, gcallers>>

\* a surface that rejects nothing
RejectsNothing(selected) == FALSE

\* line 781: if not selected
Rejects(selected) == selected = {}

\* a clear that leaves the set as it is, so that update merges
ClearedNothing(active) == active

\* line 785: ACTIVE_SCENARIOS.clear()
Cleared(active) == {}

\* line 786: ACTIVE_SCENARIOS.update(selected)
Updated(active, selected) == active \cup selected

\* lines 778-782: the request is parsed; an empty selection is answered at once
ApplyCall(a, selected) ==
    /\ admin[a].pc \in {"idle", "done"}
    /\ admin' = [admin EXCEPT ![a] =
                   IF Rejects(selected)
                   THEN [pc |-> "done", selected |-> {},
                         response |-> [success |-> FALSE, active |-> {}]]
                   ELSE [pc |-> "lock", selected |-> selected,
                         response |-> NoReply]]
    /\ UNCHANGED <<pc, stages, SMOKE_MODE, ACTIVE_SCENARIOS, SCENARIO_LOCK,
                   runClock, reader, gateSeen, committed>>

\* line 784: with SCENARIO_LOCK
ApplyAcquire(a) ==
    /\ admin[a].pc = "lock"
    /\ SCENARIO_LOCK = NoUser
    /\ SCENARIO_LOCK' = a
    /\ admin' = [admin EXCEPT ![a].pc = "clear"]
    /\ UNCHANGED <<pc, stages, SMOKE_MODE, ACTIVE_SCENARIOS, runClock, reader,
                   gateSeen, committed>>

\* line 785
ApplyClear(a) ==
    /\ admin[a].pc = "clear"
    /\ ACTIVE_SCENARIOS' = Cleared(ACTIVE_SCENARIOS)
    /\ admin' = [admin EXCEPT ![a].pc = "update"]
    /\ UNCHANGED <<pc, stages, SMOKE_MODE, SCENARIO_LOCK, runClock, reader,
                   gateSeen, committed>>

\* line 786, and the lock is released
ApplyUpdate(a) ==
    /\ admin[a].pc = "update"
    /\ ACTIVE_SCENARIOS' = Updated(ACTIVE_SCENARIOS, admin[a].selected)
    /\ committed' = ACTIVE_SCENARIOS'
    /\ SCENARIO_LOCK' = NoUser
    /\ admin' = [admin EXCEPT ![a].pc = "respond"]
    /\ UNCHANGED <<pc, stages, SMOKE_MODE, runClock, reader, gateSeen>>

\* lines 788-790: the answer lists ACTIVE_SCENARIOS as it is now
ApplyRespond(a) ==
    /\ admin[a].pc = "respond"
    /\ admin' = [admin EXCEPT ![a].pc = "done",
                              ![a].response = [success |-> TRUE,
                                               active |-> ACTIVE_SCENARIOS]]
    /\ UNCHANGED <<pc, stages, SMOKE_MODE, ACTIVE_SCENARIOS, SCENARIO_LOCK,
                   runClock, reader, gateSeen, committed>>

\* lines 574, 590: run_script takes SCENARIO_LOCK
GateAcquire(u) ==
    /\ pc[u] = "task"
    /\ SCENARIO_LOCK = NoUser
    /\ SCENARIO_LOCK' = u
    /\ pc' = [pc EXCEPT ![u] = "gate_held"]
    /\ UNCHANGED <<stages, SMOKE_MODE, ACTIVE_SCENARIOS, runClock, admin,
                   reader, gateSeen, committed>>

\* a gate that lets every user through
AdmitsAlways(u) == TRUE

\* lines 575, 591: "Script_01" not in ACTIVE_SCENARIOS, negated
Admits(u) == ScenarioOf[u] \in ACTIVE_SCENARIOS

\* a gate whose with block is not left before the script runs
GateCheckKeepsLock(u) ==
    /\ pc[u] = "gate_held"
    /\ gateSeen' = [gateSeen EXCEPT ![u] =
                       [seen |-> ScenarioOf[u] \in ACTIVE_SCENARIOS,
                        expected |-> ScenarioOf[u] \in committed]]
    /\ pc' = [pc EXCEPT ![u] = IF ~Admits(u) THEN "gate_sleep" ELSE "admitted"]
    /\ UNCHANGED <<stages, SMOKE_MODE, ACTIVE_SCENARIOS, SCENARIO_LOCK,
                   runClock, admin, reader, committed>>

\* lines 575, 591: the membership test; an inactive user goes to sleep inside
\* the with block, an active one leaves it
GateCheck(u) ==
    /\ pc[u] = "gate_held"
    /\ gateSeen' = [gateSeen EXCEPT ![u] =
                       [seen |-> ScenarioOf[u] \in ACTIVE_SCENARIOS,
                        expected |-> ScenarioOf[u] \in committed]]
    /\ IF ~Admits(u)
       THEN /\ pc' = [pc EXCEPT ![u] = "gate_sleep"]
            /\ UNCHANGED SCENARIO_LOCK
       ELSE /\ pc' = [pc EXCEPT ![u] = "admitted"]
            /\ SCENARIO_LOCK' = NoUser
    /\ UNCHANGED <<stages, SMOKE_MODE, ACTIVE_SCENARIOS, runClock, admin,
                   reader, committed>>

\* lines 576-577: time.sleep(1) is over, return leaves the with block
GateWake(u) ==
    /\ pc[u] = "gate_sleep"
    /\ SCENARIO_LOCK' = NoUser
    /\ pc' = [pc EXCEPT ![u] = "task"]
    /\ gateSeen' = [gateSeen EXCEPT ![u] = NoGateSeen]
    /\ UNCHANGED <<stages, SMOKE_MODE, ACTIVE_SCENARIOS, runClock, admin,
                   reader, committed>>

\* line 578: execute_script runs and the task ends (its steps are those of
\* SpecExec)
GateAdmitted(u) ==
    /\ pc[u] = "admitted"
    /\ pc' = [pc EXCEPT ![u] = "task"]
    /\ gateSeen' = [gateSeen EXCEPT ![u] = NoGateSeen]
    /\ UNCHANGED <<stages, SMOKE_MODE, ACTIVE_SCENARIOS, SCENARIO_LOCK,
                   runClock, admin, reader, committed>>

\* the exact value of a / b compared with that of c / d
RatLess(a, b) == a.num * b.den < b.num * a.den

\* max(spawn_rate, x): the first argument unless the second is greater
RatMax(a, b) == IF RatLess(a, b) THEN b ELSE a

\* line 622: spawn_rate = 1
InitialSpawnRate == Rat(1, 1)

\* line 637: users / ramp if ramp > 0 else users
SpawnRateOf(users, ramp) == IF ramp > 0 THEN Rat(users, ramp) ELSE Rat(users, 1)

\* a ramp that rounds up
RampedUsersCeiling(run_time, ramp, users) ==
    (run_time * users + ramp - 1) \div ramp

\* line 630: int((run_time / ramp) * users), for 0 <= run_time < ramp
RampedUsers(run_time, ramp, users) == (run_time * users) \div ramp

\* lines 625-634: the branch tick takes for an active stage
StageBranch(stage, run_time) ==
    IF run_time < stage.RampUp THEN "ramp"
    ELSE IF run_time < stage.duration * 60 THEN "steady"
    ELSE "continue"

\* lines 624-637: the loop over the stage table
RECURSIVE TickLoop(_, _, _, _, _)
TickLoop(stgs, active, run_time, total_users, spawn_rate) ==
    IF stgs = <<>> THEN Target(total_users, spawn_rate)
    ELSE LET stage  == Head(stgs)
             branch == StageBranch(stage, run_time)
             current == IF branch = "ramp"
                        THEN RampedUsers(run_time, stage.RampUp, stage.users)
                        ELSE stage.users
         IN  IF stage.scenario \notin active \/ branch = "continue"
             THEN TickLoop(Tail(stgs), active, run_time, total_users, spawn_rate)
             ELSE TickLoop(Tail(stgs), active, run_time, total_users + current,
                           RatMax(spawn_rate,
                                  SpawnRateOf(stage.users, stage.RampUp)))

\* an empty active set that ends the run
IdleTargetStops == StopSignal

\* line 618: return (0, 1)
IdleTarget == Target(0, Rat(1, 1))

\* lines 617-639: what tick returns outside smoke mode for its copy of the
\* active set
ComputeTargets(stgs, active, run_time) ==
    IF active = {} THEN IdleTarget
    ELSE TickLoop(stgs, active, run_time, 0, InitialSpawnRate)

\* lines 609-612: what tick returns in smoke mode
SmokeTargets(run_time) ==
    IF run_time < 10 THEN Target(2, Rat(2, 1)) ELSE StopSignal

\* lines 607-612: tick reads the run time; in smoke mode it returns at once
TickCall ==
    /\ reader["tick"].pc = "idle"
    /\ reader' = [reader EXCEPT !["tick"] =
                    IF SMOKE_MODE
                    THEN [NoReader EXCEPT !.pc = "returned",
                                          !.run_time = runClock,
                                          !.result = SmokeTargets(runClock)]
                    ELSE [NoReader EXCEPT !.pc = "lock",
                                          !.run_time = runClock]]
    /\ UNCHANGED <<pc, stages, SMOKE_MODE, ACTIVE_SCENARIOS, SCENARIO_LOCK,
                   runClock, admin, gateSeen, committed>>

\* lines 652-655: the listing page is asked for
ListCall ==
    /\ reader["scenario_selector"].pc = "idle"
    /\ reader' = [reader EXCEPT !["scenario_selector"].pc = "lock"]
    /\ UNCHANGED <<pc, stages, SMOKE_MODE, ACTIVE_SCENARIOS, SCENARIO_LOCK,
                   runClock, admin, gateSeen, committed>>

\* lines 614, 656: with SCENARIO_LOCK
CopyAcquire(r) ==
    /\ reader[r].pc = "lock"
    /\ SCENARIO_LOCK = NoUser
    /\ SCENARIO_LOCK' = r
    /\ reader' = [reader EXCEPT ![r].pc = "held"]
    /\ UNCHANGED <<pc, stages, SMOKE_MODE, ACTIVE_SCENARIOS, runClock, admin,
                   gateSeen, committed>>

\* lines 615, 657: active = ACTIVE_SCENARIOS.copy(), and the lock is released
CopyActive(r) ==
    /\ reader[r].pc = "held"
    /\ reader' = [reader EXCEPT ![r].pc = "copied",
                                ![r].active = ACTIVE_SCENARIOS,
                                ![r].expected = committed]
    /\ SCENARIO_LOCK' = NoUser
    /\ UNCHANGED <<pc, stages, SMOKE_MODE, ACTIVE_SCENARIOS, runClock, admin,
                   gateSeen, committed>>

\* lines 617-639: the targets are computed from the copy
TickCompute ==
    /\ reader["tick"].pc = "copied"
    /\ reader' = [reader EXCEPT
                    !["tick"].pc = "returned",
                    !["tick"].result = ComputeTargets(stages, reader["tick"].active,
                                                      reader["tick"].run_time)]
    /\ UNCHANGED <<pc, stages, SMOKE_MODE, ACTIVE_SCENARIOS, SCENARIO_LOCK,
                   runClock, admin, gateSeen, committed>>

\* the scheduler has taken the result of tick
TickReturn ==
    /\ reader["tick"].pc = "returned"
    /\ reader' = [reader EXCEPT !["tick"] = NoReader]
    /\ UNCHANGED <<pc, stages, SMOKE_MODE, ACTIVE_SCENARIOS, SCENARIO_LOCK,
                   runClock, admin, gateSeen, committed>>

\* lines 659-773: the page is rendered from the copy
ListReturn ==
    /\ reader["scenario_selector"].pc = "copied"
    /\ reader' = [reader EXCEPT !["scenario_selector"] = NoReader]
    /\ UNCHANGED <<pc, stages, SMOKE_MODE, ACTIVE_SCENARIOS, SCENARIO_LOCK,
                   runClock, admin, gateSeen, committed>>

\* the run time grows between two calls of tick
Elapse ==
    /\ reader["tick"].pc = "idle"
    /\ runClock < MaxElapsed
    /\ runClock' = runClock + 1
    /\ UNCHANGED <<pc, stages, SMOKE_MODE, ACTIVE_SCENARIOS, SCENARIO_LOCK,
                   admin, reader, gateSeen, committed>>

InitScen ==
    /\ InitStores
    /\ variables \in {Table("sequential", TRUE, TRUE, MaxLen)}
    /\ script = <<>>
    /\ pc = [u \in Users |-> "task"]
    /\ InitScenario

NextScen ==
    \/ \E a \in Admins :
        \/ \E selected \in SUBSET ScenarioIds :
              ApplyCall(a, selected) /\ UNCHANGED notScenario
        \/ ApplyAcquire(a) /\ UNCHANGED notScenario
        \/ ApplyClear(a) /\ UNCHANGED notScenario
        \/ ApplyUpdate(a) /\ UNCHANGED notScenario
        \/ ApplyRespond(a) /\ UNCHANGED notScenario
    \/ \E u \in Users :
        \/ GateAcquire(u) /\ UNCHANGED notScenario
        \/ GateCheck(u) /\ UNCHANGED notScenario
        \/ GateWake(u) /\ UNCHANGED notScenario
        \/ GateAdmitted(u) /\ UNCHANGED notScenario
    \/ \E r \in CopyReaders :
        \/ CopyAcquire(r) /\ UNCHANGED notScenario
        \/ CopyActive(r) /\ UNCHANGED notScenario
    \/ TickCall /\ UNCHANGED notScenario
    \/ TickCompute /\ UNCHANGED notScenario
    \/ TickReturn /\ UNCHANGED notScenario
    \/ ListCall /\ UNCHANGED notScenario
    \/ ListReturn /\ UNCHANGED notScenario

SpecScen == InitScen /\ [][NextScen]_vars

\* the load shape on its own: any stage table, any active set, smoke mode on
\* or off, every run time
InitShape ==
    /\ InitStores
    /\ variables \in {Table("sequential", TRUE, TRUE, MaxLen)}
    /\ script = <<>>
    /\ pc = [u \in Users |-> "task"]
    /\ InitScenarioIdle
    /\ ACTIVE_SCENARIOS \in SUBSET ScenarioIds
    /\ committed = ACTIVE_SCENARIOS
    /\ stages \in StageTables
    /\ SMOKE_MODE \in BOOLEAN
    /\ runClock = 0

NextShape ==
    \/ TickCall /\ UNCHANGED notScenario
    \/ CopyAcquire("tick") /\ UNCHANGED notScenario
    \/ CopyActive("tick") /\ UNCHANGED notScenario
    \/ TickCompute /\ UNCHANGED notScenario
    \/ TickReturn /\ UNCHANGED notScenario
    \/ Elapse /\ UNCHANGED notScenario

SpecShape == InitShape /\ [][NextShape]_vars

(***************************************************************************)
(* The whole of a run: the users poll the gate of run_script; the user of  *)
(* Script_01 runs its script through the timer and the stores whenever an  *)
(* administrative request has activated it, the user of Script_02 is never *)
(* activated; the shape callback reads the active set.                     *)
(***************************************************************************)

\* the administrative request in flight
Handler == "a1"

\* line 188: the clock as far as a sleeping caller of the timer needs it
SleepElapses ==
    /\ \E u \in Users : pc[u] = "sleep"
    /\ Tick

InitSystem ==
    /\ InitStores
    /\ InitScenario
    /\ variables \in RunConfigs
    /\ script \in TimedScripts
    /\ pc = [u \in Users |-> "task"]

\* the steps of a user: the gate of run_script, then execute_script
UserStep(u) ==
    \/ GateAcquire(u) /\ UNCHANGED notScenario
    \/ GateCheck(u) /\ UNCHANGED notScenario
    \/ GateWake(u) /\ UNCHANGED notScenario
    \/ RunScript(u)
    \/ ExecuteRequest(u)
    \/ ThroughputWait(u) /\ UNCHANGED notTimer
    \/ WaitNewTimer(u) /\ UNCHANGED notTimer
    \/ WaitNewLock(u) /\ UNCHANGED notTimer
    \/ WaitLookup(u) /\ UNCHANGED notTimer
    \/ WaitAcquire(u) /\ UNCHANGED notTimer
    \/ WaitMeasure(u) /\ UNCHANGED notTimer
    \/ WaitWake(u) /\ UNCHANGED notTimer
    \/ WaitStamp(u) /\ UNCHANGED notTimer
    \/ SubstituteVariables(u)
    \/ SubstituteReturn(u)
    \/ GvAcquire(u)
    \/ GvRead(u)
    \/ GvTake(u)
    \/ ExceptStopIteration(u)
    \/ SendRequest(u)
    \/ ExtractAndStore(u)
    \/ CorrAcquire(u)
    \/ CorrStoreGlobal(u)
    \/ ExitResponse(u)

\* the steps of the administrative request
HandlerStep(selections) ==
    \/ \E selected \in selections :
          ApplyCall(Handler, selected) /\ UNCHANGED notScenario
    \/ ApplyAcquire(Handler) /\ UNCHANGED notScenario
    \/ ApplyClear(Handler) /\ UNCHANGED notScenario
    \/ ApplyUpdate(Handler) /\ UNCHANGED notScenario
    \/ ApplyRespond(Handler) /\ UNCHANGED notScenario

\* the steps of the shape callback
ShapeStep ==
    \/ TickCall /\ UNCHANGED notScenario
    \/ CopyAcquire("tick") /\ UNCHANGED notScenario
    \/ CopyActive("tick") /\ UNCHANGED notScenario
    \/ TickCompute /\ UNCHANGED notScenario
    \/ TickReturn /\ UNCHANGED notScenario

NextSystem ==
    \/ \E u \in Users : UserStep(u)
    \/ HandlerStep(SUBSET {ScenarioOf[Runner]})
    \/ ShapeStep
    \/ SleepElapses /\ UNCHANGED notTimer

SpecSystem == InitSystem /\ [][NextSystem]_vars

(***************************************************************************)
(* Activation and deactivation under running users: both users poll the    *)
(* gate and run a script of two transactions without timers, checks and    *)
(* correlation rules, while the administrative request selects any set.    *)
(***************************************************************************)

GatedScripts ==
    { << [transaction_name |-> "Address CRUD - READ",
          placeholders |-> <<"OrderId1">>,
          checks |-> <<>>,
          correlations |-> <<>>],
         [transaction_name |-> "Address CRUD - CREATE",
          placeholders |-> <<"LastName">>,
          checks |-> <<>>,
          correlations |-> <<>>] >> }

InitGate ==
    /\ InitStores
    /\ InitScenario
    /\ variables \in RunConfigs
    /\ script \in GatedScripts
    /\ pc = [u \in Users |-> "task"]

NextGate ==
    \/ \E u \in Users :
        \/ GateAcquire(u) /\ UNCHANGED notScenario
        \/ GateCheck(u) /\ UNCHANGED notScenario
        \/ GateWake(u) /\ UNCHANGED notScenario
        \/ RunScript(u)
        \/ ExecuteRequest(u)
        \/ SubstituteVariables(u)
        \/ SubstituteReturn(u)
        \/ GvAcquire(u)
        \/ GvRead(u)
        \/ GvTake(u)
        \/ ExceptStopIteration(u)
        \/ SendRequest(u)
        \/ ExitResponse(u)
    \/ HandlerStep(SUBSET ScenarioIds)

SpecGate == InitGate /\ [][NextGate]_vars

(***************************************************************************)
(* The preparation of the request headers in execute_request.              *)
(***************************************************************************)

\* lines 259-265, 277-282: the header names a transaction may declare, in the
\* spellings of the correlation id a script may use
HeaderNames == {"correlationId", "CorrelationId", "correlationid",
                "Content-Type"}

\* the value the template gives every header; it holds no ${...}, so
\* substitute_variables returns it as it is (line 361, re.sub without a match)
TemplateValue == "from-template"

\* line 399: str(uuid.uuid4()), the n-th identifier generated
Uuid4(n) == "uuid4-" \o ToString(n)

\* what no step of the header preparation touches
notHeaders == <<cfgVars, execVars, takeHist, timerVars, scenVars, indices,
                groupIndex, lockHolder, gv, ret, acq, draws, gcallers>>

\* line 390: headers = transaction_config.get("headers", {})
GetHeaders(u, names) ==
    /\ pc[u] = "headers"
    /\ uuids < MaxUuids
    /\ hdr' = [hdr EXCEPT ![u] =
                 [NoHeaders EXCEPT !.headers = [k \in names |-> TemplateValue]]]
    /\ pc' = [pc EXCEPT ![u] = "substitute_headers"]
    /\ UNCHANGED uuids

\* lines 393-395: every header value goes through substitute_variables
SubstituteHeaders(u) ==
    /\ pc[u] = "substitute_headers"
    /\ hdr' = [hdr EXCEPT ![u].processed_headers =
                 [k \in DOMAIN hdr[u].headers |-> hdr[u].headers[k]]]
    /\ pc' = [pc EXCEPT ![u] = "correlation_id"]
    /\ UNCHANGED uuids

\* line 398: the spellings execute_request looks for
Recognised == {"correlationId", "CorrelationId"}

\* lines 398-403: a generated identifier replaces the correlation id headers
OverwriteCorrelationId(u) ==
    LET processed_headers == hdr[u].processed_headers
        unique_correlation_id == Uuid4(uuids + 1)
    IN  /\ pc[u] = "correlation_id"
        /\ IF Recognised \cap DOMAIN processed_headers # {}
           THEN /\ uuids' = uuids + 1
                /\ hdr' = [hdr EXCEPT
                      ![u].unique_correlation_id = unique_correlation_id,
                      ![u].processed_headers =
                          [k \in DOMAIN processed_headers |->
                              IF k \in Recognised THEN unique_correlation_id
                              ELSE processed_headers[k]]]
           ELSE UNCHANGED <<hdr, uuids>>
        /\ pc' = [pc EXCEPT ![u] = "send_headers"]

\* lines 438-441: processed_headers are handed to client.request
SendHeaders(u) ==
    /\ pc[u] = "send_headers"
    /\ pc' = [pc EXCEPT ![u] = "headers_sent"]
    /\ UNCHANGED <<hdr, uuids>>

\* the request is over
HeadersDone(u) ==
    /\ pc[u] = "headers_sent"
    /\ hdr' = [hdr EXCEPT ![u] = NoHeaders]
    /\ pc' = [pc EXCEPT ![u] = "headers"]
    /\ UNCHANGED uuids

InitHeaders ==
    /\ InitStores
    /\ InitScenario
    /\ variables \in {Table("sequential", TRUE, TRUE, MaxLen)}
    /\ script = <<>>
    /\ pc = [u \in Users |-> "headers"]

NextHeaders ==
    \E u \in Users :
        \/ \E names \in SUBSET HeaderNames :
              GetHeaders(u, names) /\ UNCHANGED notHeaders
        \/ SubstituteHeaders(u) /\ UNCHANGED notHeaders
        \/ OverwriteCorrelationId(u) /\ UNCHANGED notHeaders
        \/ SendHeaders(u) /\ UNCHANGED notHeaders
        \/ HeadersDone(u) /\ UNCHANGED notHeaders

SpecHeaders == InitHeaders /\ [][NextHeaders]_vars

(***************************************************************************)
(* Progress of an activation: the users poll the gate, the administrative  *)
(* request asks for the scenario lock.  Every context is scheduled again   *)
(* and again while it can take a step; threading.Lock hands the lock to    *)
(* any of the contexts that ask for it, in no order.                       *)
(***************************************************************************)

\* lines 572-578: one step of run_script
GateStep(u) ==
    \/ GateAcquire(u) /\ UNCHANGED notScenario
    \/ GateCheck(u) /\ UNCHANGED notScenario
    \/ GateWake(u) /\ UNCHANGED notScenario
    \/ GateAdmitted(u) /\ UNCHANGED notScenario

NextLive ==
    \/ \E u \in Users : GateStep(u)
    \/ HandlerStep(SUBSET ScenarioIds)

\* every context that can go on does so
Fairness ==
    /\ \A u \in Users : WF_vars(GateStep(u))
    /\ WF_vars(HandlerStep(SUBSET ScenarioIds))

SpecLive == InitScen /\ [][NextLive]_vars /\ Fairness

(***************************************************************************)
(* Claims about the VariableManager, checked under SpecVM.                 *)
(***************************************************************************)
Group == "address_data"
FirstMember == combination_groups[Group].variables[1]
LastMember == Last(combination_groups[Group].variables)

\* the variables whose draws go through a cursor and do not recycle
NonRecycling ==
    {n \in VarNames : variables[n].type # "random" \/ InGroup(n)} \cap
    {n \in VarNames : ~variables[n].recycle_on_eof}

\* C3: with recycle=false no index of a variable or of a group member is
\* handed out by two successful draws, whatever the interleaving of the
\* callers, each of which draws the group in declared order.
C3_EachIndexHandedOutOnce ==
    (\A u \in Users : ordered[u]) =>
        \A n \in NonRecycling : \A i \in DOMAIN handed[n] : handed[n][i] <= 1

\* C4: when every user draws the members of the group in declared order, a
\* user that has drawn a whole row has received every value of that row from
\* the same row index.
C4_RowsStayAligned ==
    (\A w \in Users : ordered[w]) =>
        \A u \in Users :
            Len(row[u]) = Len(combination_groups[Group].variables)
                => \A p, q \in DOMAIN row[u] : row[u][p] = row[u][q]

\* C5: a step raises the group's row cursor only if it is the draw of the
\* declared last member, which leaves it one past the row it read; a draw of
\* another member never raises it (at the bound it resets it to row 0).
C5_CursorAdvancesOnlyOnLastMember ==
    [][\A g \in DOMAIN combination_groups :
        LET last == Last(combination_groups[g].variables)
            LastTaken ==
                \E u \in Users : /\ gv[u].pc = "take" /\ gv'[u].pc = "none"
                                 /\ gv[u].lock = g /\ gv[u].name = last
            OtherDrawn ==
                \E u \in Users : /\ gv[u].pc \in {"read", "take"}
                                 /\ gv'[u].pc # gv[u].pc
                                 /\ gv[u].lock = g /\ gv[u].name # last
        IN  /\ groupIndex'[g] > groupIndex[g] => LastTaken
            /\ LastTaken => \E u \in Users :
                               /\ gv[u].pc = "take" /\ gv[u].lock = g
                               /\ groupIndex'[g] = gv[u].idx + 1
            /\ OtherDrawn => groupIndex'[g] \in {groupIndex[g], 0}
      ]_vars

\* C5 witness: a user that drew the members out of declared order has drawn
\* the last member, and the cursor stands one past the row it read.
C5_Witness ==
    \E u \in Users :
        /\ ~ordered[u]
        /\ ret[u].name = LastMember /\ ret[u].status = "value"
        /\ groupIndex[Group] = ret[u].idx + 1
        /\ gtakes >= 3

\* C6: a single caller drawing a recycling group in declared order, row after
\* row, receives in its k-th row the values at index (k-1) mod n.
C6_RowKReadsIndexKMinus1ModN ==
    \A u \in Users :
        ( /\ gcallers = {u} /\ ordered[u]
          /\ ret[u].status = "value" /\ ret[u].name \in DOMAIN variables
          /\ InGroup(ret[u].name) /\ variables[ret[u].name].recycle_on_eof )
        => LET n == Len(variables[ret[u].name].values)
           IN  /\ ret[u].idx = (ret[u].k - 1) % n
               /\ ret[u].val = variables[ret[u].name].values[((ret[u].k - 1) % n) + 1]

\* C6 witness: the single caller has drawn the last member of row n+1, which
\* is row 0 again.
C6_Witness ==
    \E u \in Users :
        /\ gcallers = {u} /\ ordered[u]
        /\ ret[u].status = "value" /\ ret[u].name = LastMember
        /\ variables[LastMember].recycle_on_eof
        /\ ret[u].k = Len(variables[LastMember].values) + 1
        /\ ret[u].idx = 0

\* the plain (not grouped) variable of the table that has a cursor
Plain == "OrderId1"

\* C7: a plain sequential variable with recycle=true returns to the k-th
\* caller to take its lock values[(k-1) mod n], and never signals exhaustion.
C7_SequentialRecycles ==
    \A u \in Users :
        ( /\ ret[u].name = Plain /\ variables[Plain].type = "sequential"
          /\ variables[Plain].recycle_on_eof
          /\ ret[u].status \in {"value", "exhausted"} )
        => LET n == Len(variables[Plain].values)
           IN  /\ ret[u].status = "value"
               /\ ret[u].val = variables[Plain].values[((ret[u].ticket - 1) % n) + 1]

\* C7 witness: draw n+1, made after both users have drawn, returns values[0].
C7_Witness ==
    \E u \in Users : \E w \in Users \ {u} :
        /\ ret[u].name = Plain /\ variables[Plain].type = "sequential"
        /\ variables[Plain].recycle_on_eof
        /\ ret[u].status = "value"
        /\ ret[u].ticket = Len(variables[Plain].values) + 1
        /\ ret[u].val = variables[Plain].values[1]
        /\ ret[w].name = Plain /\ ret[w].status = "value"

\* C8: a plain unique or sequential variable with recycle=false returns
\* values[k-1] to the k-th draw for k <= n, signals exhaustion to every later
\* draw, and its cursor then stays at n.
C8_ExhaustionIsPermanent ==
    ~variables[Plain].recycle_on_eof =>
        LET n == Len(variables[Plain].values)
        IN  /\ indices[Plain] <= n
            /\ \A u \in Users :
                 (ret[u].name = Plain /\ ret[u].status \in {"value", "exhausted"})
                 => IF ret[u].ticket <= n
                    THEN /\ ret[u].status = "value"
                         /\ ret[u].val = variables[Plain].values[ret[u].ticket]
                    ELSE /\ ret[u].status = "exhausted"
                         /\ indices[Plain] = n

\* C8 witness: a unique variable has signalled exhaustion to draw n+2.
C8_Witness ==
    \E u \in Users :
        /\ variables[Plain].type = "unique" /\ ~variables[Plain].recycle_on_eof
        /\ ret[u].name = Plain /\ ret[u].status = "exhausted"
        /\ ret[u].ticket = Len(variables[Plain].values) + 2
        /\ indices[Plain] = Len(variables[Plain].values)


(***************************************************************************)
(* Claims about the RequestExecutor, checked under SpecExec.               *)
(***************************************************************************)

\* C1: a transaction is reported as a success only if every declared check
\* passed on its response; a failed status or content check makes it a
\* failure whatever the other check found.
C1_SuccessOnlyIfEveryCheckPasses ==
    \A u \in Users :
        xh[u].outcome.result = "success"
            => xh[u].outcome.status_passed /\ xh[u].outcome.content_passed

\* C2: ${name} resolves to the user's session correlation value if one is
\* stored, whatever the value; else to the global one if one is stored; else
\* to a VariableStore draw (a value, the literal placeholder, or exhaustion).
C2_SessionThenGlobalThenVariable ==
    \A u \in Users :
        LET r == xh[u].resolution
        IN  r.source \notin {"none", "pending"} =>
                IF r.session.some
                THEN r.source = "session" /\ r.val = r.session.val
                ELSE IF r.global.some
                THEN r.source = "global" /\ r.val = r.global.val
                ELSE r.source \in {"value", "placeholder", "exhausted"}

\* C9: once a draw has signalled exhaustion to a user in transaction t of
\* iteration i, that request is never sent nor reported, the user begins no
\* later transaction, and the runner has been told to quit as soon as the
\* handler has run.
C9_ExhaustionEndsTheRun ==
    \A u \in Users :
        xh[u].exhaustedAt # <<>> =>
            LET i == xh[u].exhaustedAt[1]
                t == xh[u].exhaustedAt[2]
            IN  /\ <<i, t>> \notin xh[u].sent
                /\ xh[u].outcome.at # <<i, t>>
                /\ \A a \in xh[u].started :
                       a[1] < i \/ (a[1] = i /\ a[2] <= t)
                /\ pc[u] \in {"except", "request", "task"}
                /\ pc[u] # "except" => runnerQuit

\* C9 witness: exhaustion was signalled in a transaction that is not the last
\* of the script, and the user has left execute_script.
C9_Witness ==
    \E u \in Users :
        /\ xh[u].exhaustedAt # <<>>
        /\ xh[u].exhaustedAt[2] < Len(script)
        /\ pc[u] = "task"
        /\ runnerQuit
        /\ Begun < MaxRequests

(***************************************************************************)
(* Claims about the ConstantThroughputTimer, checked under SpecTimer.      *)
(***************************************************************************)

\* C10: any two consecutive dispatch timestamps recorded for a timer id are at
\* least 60/r seconds apart, whatever the interleaving of the callers.
C10_DispatchesAtLeastOneIntervalApart ==
    \A t \in TimerIds :
        \A k \in 1..(Len(stamps[t]) - 1) :
            stamps[t][k + 1] - stamps[t][k] >= TargetInterval(RpmOf(t))

\* the callers inside the wait-then-stamp sequence of a timer id (lines
\* 181-191, inside the with block)
InsideWait(timer_id) ==
    {u \in Users : pc[u] \in {"locked", "sleep", "stamp"}
                   /\ tw[u].timer_id = timer_id}

\* C11: callers sharing a timer id are serialized, also when the first calls
\* for the timer id race: at most one caller is inside the wait-then-stamp
\* sequence of a timer id, and no more than one lock is ever created per
\* timer id.
C11_CallersAreSerialized ==
    /\ \A t \in TimerIds : Cardinality(InsideWait(t)) <= 1
    /\ Cardinality(DOMAIN lockObject) <= Cardinality(DOMAIN locks)

(***************************************************************************)
(* Claims about the CorrelationEngine, checked under SpecCorr.             *)
(***************************************************************************)

\* the rule a user's extract_and_store call is applying
Rule(u) == Head(ex[u].corrs)

\* the step in which user u's call stores into the session scope
SessionExtractStep(u) ==
    /\ pc[u] = "correlate"
    /\ ex[u].corrs # <<>>
    /\ Rule(u).scope = "session"
    /\ Contains(Rule(u).regex.literal, ex[u].response.text)
    /\ ex'[u].corrs = <<>>

\* C12: a matching session extract by user u into V makes lookup(V, session,
\* u) the extracted value and leaves lookup(V, global) and every other
\* user's session lookups as they were; and lookup(V, session, u) changes in
\* no other step than a matching session extract by u into V.
C12_SessionExtractIsVisibleAndFramed ==
    [][\A u \in Users : \A V \in CorrNames :
          /\ (SessionExtractStep(u) /\ Rule(u).variable = V) =>
                /\ CorrGetValue(V, "session", u)' =
                       ExtractResult(ex[u].response.text, Rule(u).regex)
                /\ CorrGetValue(V, "session", u)'.some
                /\ \A N \in CorrNames :
                      /\ CorrGetValue(N, "global", u)' = CorrGetValue(N, "global", u)
                      /\ \A w \in Users \ {u} :
                            CorrGetValue(N, "session", w)' =
                                CorrGetValue(N, "session", w)
          /\ CorrGetValue(V, "session", u)' # CorrGetValue(V, "session", u)
                => SessionExtractStep(u) /\ Rule(u).variable = V
      ]_vars

\* C12 witness: a user has just stored a session value under a name for which
\* the other user holds a different session value and the global scope holds
\* yet another.
C12_Witness ==
    \E u \in Users : \E w \in Users \ {u} : \E V \in CorrNames :
        /\ pc[u] = "correlate"
        /\ ex[u].corrs = <<>>
        /\ CorrGetValue(V, "session", u) = Some("42")
        /\ ex[u].response.text = "ok id=42"
        /\ CorrGetValue(V, "session", w) = Some("")
        /\ CorrGetValue(V, "global", u) = None
        /\ \E N \in CorrNames \ {V} : CorrGetValue(N, "global", u) = Some("42")

\* the step in which user u's call finds no match of the rule's pattern
MissStep(u) ==
    /\ pc[u] = "correlate"
    /\ ex[u].corrs # <<>>
    /\ ~Contains(Rule(u).regex.literal, ex[u].response.text)
    /\ ex'[u] # ex[u]

\* C13: when the pattern does not match the response body, extract returns
\* none and both stores stay as they were, values stored earlier under the
\* same name and scope included.
C13_MissStoresNothing ==
    [][\A u \in Users :
          MissStep(u) =>
              /\ ExtractResult(ex[u].response.text, Rule(u).regex) = None
              /\ pc'[u] = "correlate"
              /\ session_store' = session_store
              /\ global_store' = global_store
      ]_vars

\* C13 witness: a call whose pattern did not match has returned past values
\* stored earlier under its name in both scopes.
C13_Witness ==
    \E u \in Users : \E V \in CorrNames :
        /\ pc[u] = "correlate"
        /\ ex[u].corrs = <<>>
        /\ ex[u].response.text = "error"
        /\ CorrGetValue(V, "session", u) = Some("42")
        /\ CorrGetValue(V, "global", u) = Some("")

(***************************************************************************)
(* Claims about the scenario registry, checked under SpecScen.             *)
(***************************************************************************)

\* every reader that took SCENARIO_LOCK saw the set the last completed
\* activation left (the previous set, or S once S is in place)
ReadersSeeCommitted ==
    /\ \A r \in CopyReaders :
          reader[r].pc \in {"copied", "returned"} =>
              reader[r].active = reader[r].expected
    /\ \A u \in Users :
          pc[u] \in {"gate_sleep", "admitted"} =>
              gateSeen[u].seen = gateSeen[u].expected

\* C14: when an activation with selection S leaves its with block the active
\* set is exactly S, whatever it was before, and no reader that takes the
\* scenario lock observes a set that is neither the previous set nor S.
C14_ActivationReplacesWholesale ==
    [][ /\ \A a \in Admins :
              (admin[a].pc = "update" /\ admin'[a].pc = "respond") =>
                  /\ ACTIVE_SCENARIOS' = admin[a].selected
                  /\ committed' = admin[a].selected
        /\ ReadersSeeCommitted'
      ]_vars

\* C14 witness: a selection has just replaced a set it does not contain,
\* which the shape callback had copied before.
C14_Witness ==
    \E a \in Admins : \E b \in Admins \ {a} :
        /\ admin[a].pc = "respond"
        /\ admin[a].selected = {"Script_02"}
        /\ ACTIVE_SCENARIOS = {"Script_02"}
        /\ admin[b].pc = "done"
        /\ admin[b].response = [success |-> TRUE, active |-> {"Script_01"}]
        /\ reader["tick"].pc = "copied"
        /\ reader["tick"].active = {"Script_01"}

\* C15: a request whose selection is empty is answered with an explicit
\* failure in the step that parses it, never enters the with block, and the
\* active set is after that step what it was before.
C15_EmptySelectionIsRejected ==
    [][ \A a \in Admins :
          (admin'[a] # admin[a] /\ admin'[a].selected = {}
             /\ admin'[a].pc # "idle") =>
                /\ admin'[a].pc = "done"
                /\ ~admin'[a].response.success
                /\ ACTIVE_SCENARIOS' = ACTIVE_SCENARIOS
      ]_vars

\* C15 witness: an empty selection has been rejected while a scenario was
\* active, and it still is.
C15_Witness ==
    \E a \in Admins :
        /\ admin[a].pc = "done"
        /\ admin[a].selected = {}
        /\ ~admin[a].response.success
        /\ ACTIVE_SCENARIOS = {"Script_01"}
        /\ committed = {"Script_01"}

(***************************************************************************)
(* Claims about the load shape, checked under SpecShape.                   *)
(***************************************************************************)

RECURSIVE SumOver(_, _)
SumOver(S, f) ==
    IF S = {} THEN 0
    ELSE LET x == CHOOSE x \in S : TRUE
         IN  f[x] + SumOver(S \ {x}, f)

\* the stages of the table whose scenario is in the set
StagesOf(active) == {i \in DOMAIN stages : stages[i].scenario \in active}

\* what a stage is stated to contribute at an elapsed time
Contribution(stage, e) ==
    IF e < stage.RampUp THEN (e * stage.users) \div stage.RampUp
    ELSE IF e < stage.duration * 60 THEN stage.users
    ELSE 0

\* the stages that still take part in the spawn rate at an elapsed time
Live(active, e) ==
    {i \in StagesOf(active) :
        e < stages[i].RampUp \/ e < stages[i].duration * 60}

\* users / rampUp, users when rampUp = 0
StatedRate(stage) ==
    IF stage.RampUp = 0 THEN Rat(stage.users, 1)
    ELSE Rat(stage.users, stage.RampUp)

RatEq(a, b) == a.num * b.den = b.num * a.den

\* r is the greatest of the rates of the set of rates R
IsMaxOf(r, R) ==
    /\ \E x \in R : RatEq(r, x)
    /\ \A x \in R : ~RatLess(r, x)

\* tick has returned its targets outside smoke mode
Returned == reader["tick"].pc = "returned" /\ ~SMOKE_MODE

\* the total stated for the copy of the active set tick worked on
StatedTotal ==
    SumOver(StagesOf(reader["tick"].active),
            [i \in DOMAIN stages |->
                Contribution(stages[i], reader["tick"].run_time)])

\* C16 as stated: for a non-empty active set, totalUsers is the sum of the
\* stated contributions and spawnRate is the maximum of users/rampUp (users
\* when rampUp = 0) over the active stages that are not yet expired.
C16_TargetsAsStated ==
    (Returned /\ reader["tick"].active # {}) =>
        LET res  == reader["tick"].result
            live == Live(reader["tick"].active, reader["tick"].run_time)
        IN  /\ ~res.stop
            /\ res.users = StatedTotal
            /\ live # {} => IsMaxOf(res.rate, {StatedRate(stages[i]) : i \in live})

\* C16 amended: totalUsers is the sum of the stated contributions, and
\* spawnRate is the maximum of 1 and of users/rampUp (users when rampUp = 0)
\* over the active stages that are not yet expired; it is never below 1.
C16_TargetsWithRateAtLeastOne ==
    (Returned /\ reader["tick"].active # {}) =>
        LET res  == reader["tick"].result
            live == Live(reader["tick"].active, reader["tick"].run_time)
        IN  /\ ~res.stop
            /\ res.users = StatedTotal
            /\ IsMaxOf(res.rate,
                       {Rat(1, 1)} \cup {StatedRate(stages[i]) : i \in live})

\* C16 witness: both stages active, one three seconds into a ramp of five,
\* the other with no ramp and three users, which sets the spawn rate.
C16_Witness ==
    /\ Returned
    /\ reader["tick"].active = ScenarioIds
    /\ reader["tick"].run_time = 3
    /\ stages[1].RampUp = 5
    /\ stages[2].RampUp = 0
    /\ stages[2].users = 3
    /\ reader["tick"].result = Target(4, Rat(3, 1))

\* the target is idle: no users, a spawn rate above zero, no stop signal
IsIdle(res) == ~res.stop /\ res.users = 0 /\ RatLess(Rat(0, 1), res.rate)

\* C17 as stated: whenever the active set is empty the callback returns the
\* idle target and never the stop signal, and outside smoke mode it never
\* returns the stop signal.
C17_IdleWhenNothingActive ==
    reader["tick"].pc = "returned" =>
        /\ ACTIVE_SCENARIOS = {} => IsIdle(reader["tick"].result)
        /\ ~SMOKE_MODE => ~reader["tick"].result.stop

\* C17 amended: outside smoke mode the callback never returns the stop
\* signal, and returns the idle target whenever the active set is empty; in
\* smoke mode it ignores the active set.
C17_IdleWhenNothingActiveOutsideSmoke ==
    Returned =>
        /\ ACTIVE_SCENARIOS = {} => IsIdle(reader["tick"].result)
        /\ ~reader["tick"].result.stop

\* C17 witness: nothing active, long after every stage has ended, and the
\* callback has answered.
C17_Witness ==
    /\ Returned
    /\ ACTIVE_SCENARIOS = {}
    /\ reader["tick"].run_time > 60
    /\ reader["tick"].result = Target(0, Rat(1, 1))

\* the scenarios of the copy whose stage has not reached its duration
BeforeDuration(active, e) ==
    {stages[i].scenario : i \in {j \in StagesOf(active) :
                                    e < stages[j].duration * 60}}

\* C18: a stage that has reached its duration contributes no users and takes
\* no part in the spawn rate (the targets are those of the stages that have
\* not), and no stage contributes more than its user count.
C18_ExpiredStagesContributeNothing ==
    Returned =>
        LET active == reader["tick"].active
            e == reader["tick"].run_time
        IN  /\ reader["tick"].result =
                   ComputeTargets(stages, BeforeDuration(active, e), e)
            /\ reader["tick"].result.users <=
                   SumOver(StagesOf(BeforeDuration(active, e)),
                           [i \in DOMAIN stages |-> stages[i].users])

(***************************************************************************)
(* Claims about the request headers, checked under SpecHeaders.            *)
(***************************************************************************)

UpperLetters == "ABCDEFGHIJKLMNOPQRSTUVWXYZ"
LowerLetters == "abcdefghijklmnopqrstuvwxyz"

\* a character in lower case
LowerChar(c) ==
    IF \E i \in 1..Len(UpperLetters) : SubSeq(UpperLetters, i, i) = c
    THEN LET i == CHOOSE i \in 1..Len(UpperLetters) :
                      SubSeq(UpperLetters, i, i) = c
         IN  SubSeq(LowerLetters, i, i)
    ELSE c

RECURSIVE LowerCase(_)
LowerCase(text) ==
    IF text = "" THEN ""
    ELSE LowerChar(SubSeq(text, 1, 1)) \o LowerCase(SubSeq(text, 2, Len(text)))

\* the header is named correlationId, in any letter case
IsCorrelationId(name) == LowerCase(name) = "correlationid"

\* C19: every header named correlationId, in any letter case, goes to the
\* transport with an identifier generated for this request, which is not the
\* value the template resolved to and not the identifier of another request.
C19_CorrelationIdIsFresh ==
    \A u \in Users :
        pc[u] = "headers_sent" =>
            \A k \in DOMAIN hdr[u].processed_headers :
                IsCorrelationId(k) =>
                    /\ hdr[u].unique_correlation_id # ""
                    /\ hdr[u].processed_headers[k] = hdr[u].unique_correlation_id
                    /\ hdr[u].processed_headers[k] # hdr[u].headers[k]
                    /\ \A w \in Users \ {u} :
                          hdr[w].unique_correlation_id #
                              hdr[u].unique_correlation_id

(***************************************************************************)
(* Claims about the order of a user's steps, checked under SpecRun.        *)
(***************************************************************************)

GatePcs == {"gate", "new_timer", "new_lock", "lookup", "acquire", "locked",
            "sleep", "stamp"}
ResolvePcs == {"resolve", "drawing", "except"}
ExtractPcs == {"correlate", "corr_lock", "corr_store"}

\* how far a user is in its transaction: before it, in the throughput gate,
\* resolving, or past the dispatch and the checks
StepRank(p) ==
    IF p \in GatePcs THEN 1
    ELSE IF p \in ResolvePcs THEN 2
    ELSE IF p \in ExtractPcs THEN 3
    ELSE 0

\* C20: within one user context the steps of a transaction occur in the
\* order throughput gate, resolve, send and checks, correlation extraction,
\* think time, none is skipped, and a transaction begins only when the one
\* declared before it has completed them all (or, for the first of the
\* script, when a new iteration starts).
C20_TransactionsRunInOrder ==
    [][ \A u \in Users :
          LET t  == ex[u].txn
              i  == ex[u].iteration
              same == ex'[u].txn = t /\ ex'[u].iteration = i
          IN  /\ (same /\ t \in DOMAIN script
                    /\ pc'[u] \notin {"task", "except"}) =>
                    /\ StepRank(pc'[u]) >= StepRank(pc[u])
                    /\ \/ StepRank(pc'[u]) <= StepRank(pc[u]) + 1
                       \/ /\ pc[u] = "request"
                          /\ pc'[u] = "resolve"
                          /\ ~HasTimer(script[t])
                    /\ (pc[u] = "request" /\ pc'[u] # "request"
                          /\ HasTimer(script[t])) => pc'[u] = "gate"
                    /\ StepRank(pc'[u]) = 1 =>
                          ex'[u].todo = script[t].placeholders
                    /\ StepRank(pc'[u]) < 3 => <<i, t>> \notin xh'[u].sent
                    /\ StepRank(pc'[u]) = 3 =>
                          <<i, t>> \in xh'[u].sent /\ ex'[u].todo = <<>>
              /\ (~same /\ ex'[u].txn \in DOMAIN script) =>
                    \/ /\ pc[u] = "task"
                       /\ ex'[u].iteration = i + 1
                       /\ ex'[u].txn = 1
                    \/ /\ ex'[u].iteration = i
                       /\ ex'[u].txn = t + 1
                       /\ pc[u] = "correlate"
                       /\ ex[u].corrs = <<>>
                       /\ <<i, t>> \in xh[u].sent
                       /\ xh'[u].outcome.at = <<i, t>>
      ]_vars

\* C20 witness: the user is past the dispatch of its second transaction,
\* the first has been reported, both went through the timer, and the other
\* user is asleep in the timer of the first.
C20_Witness ==
    /\ ex[Runner].iteration = 1
    /\ ex[Runner].txn = 2
    /\ pc[Runner] = "correlate"
    /\ xh[Runner].outcome.at = <<1, 1>>
    /\ xh[Runner].sent = {<<1, 1>>, <<1, 2>>}
    /\ tw[Runner].timer_id = ThroughputTargets.create.timer_id
    /\ tw[Runner].result = "dispatched"
    /\ \E w \in Users \ {Runner} : pc[w] = "sleep"

(***************************************************************************)
(* Claims about failed checks, checked under SpecExec.                     *)
(***************************************************************************)

\* the user is past the dispatch of a transaction one of whose declared
\* checks does not pass on the response
CheckFailed(u) ==
    /\ pc[u] \in ExtractPcs
    /\ ex[u].txn \in DOMAIN script
    /\ \/ ~StatusPassed(Txn(u).checks, ex[u].response)
       \/ ~ContentPassed(Txn(u).checks, ex[u].response)

\* the latest outcome reported by the user is that of the transaction before
\* the one it stands at, and one of its checks did not pass
FailureReported(u) ==
    /\ xh[u].outcome.at = <<ex[u].iteration, ex[u].txn - 1>>
    /\ ~(xh[u].outcome.status_passed /\ xh[u].outcome.content_passed)

\* C21: a failed status or content check does not abort the script: every
\* correlation rule of the transaction is still applied to the response, the
\* transaction ends the ordinary way (think time included), and the next
\* transaction of the script is begun in the same iteration.
C21_CheckFailureDoesNotAbort ==
    [][ \A u \in Users :
          /\ (pc[u] = "resolve" /\ CheckFailed(u)') =>
                ex'[u].corrs = Txn(u).correlations
          /\ CheckFailed(u) =>
                /\ pc'[u] \in ExtractPcs \cup {"request"}
                /\ ex'[u].iteration = ex[u].iteration
                /\ runnerQuit' = runnerQuit \/ \E w \in Users \ {u} : pc[w] = "except"
                /\ ex'[u].corrs # ex[u].corrs =>
                      LET corr  == Head(ex[u].corrs)
                          match == ReSearch(corr.regex, ex[u].response.text)
                      IN  /\ ex'[u].corrs = Tail(ex[u].corrs)
                          /\ (match.some /\ corr.scope = "global") =>
                                Get(global_store', corr.variable)
                                    = Some(match.val)
                          /\ (match.some /\ corr.scope # "global") =>
                                /\ u \in DOMAIN session_store'
                                /\ Get(session_store'[u], corr.variable)
                                      = Some(match.val)
                /\ pc'[u] = "request" =>
                      /\ ex[u].corrs = <<>>
                      /\ ex'[u].txn = ex[u].txn + 1
                      /\ xh'[u].outcome.at = At(u)
          /\ (pc[u] = "request" /\ ex[u].txn \in DOMAIN script
                /\ FailureReported(u) /\ pc'[u] # pc[u]) =>
                /\ pc'[u] \in {"resolve", "gate"}
                /\ ex'[u].iteration = ex[u].iteration
                /\ ex'[u].txn = ex[u].txn
                /\ At(u) \in xh'[u].started
      ]_vars

\* C21 witness: a user has sent the second transaction of an iteration whose
\* first transaction failed a check, and the value of the failed response
\* was extracted into the user's session.
C21_Witness ==
    \E u \in Users :
        /\ ex[u].txn = 2
        /\ FailureReported(u)
        /\ At(u) \in xh[u].sent
        /\ CorrGetValue("OrderId1", "session", u) = Some("42")

(***************************************************************************)
(* Claims about draws that find nothing to draw from, checked under        *)
(* SpecDraw.                                                               *)
(***************************************************************************)

\* the name is not registered, or is registered with no values
IsGap(name) ==
    \/ name \notin DOMAIN variables
    \/ variables[name].values = <<>>

\* C22: a draw on an unregistered name or on a variable with an empty value
\* sequence returns the literal ${name}, raises nothing (no exhaustion), and
\* leaves every variable cursor and every group cursor as it was: the call
\* returns before any lock is taken.
C22_GapDrawReturnsPlaceholder ==
    [][ /\ \A u \in Users :
            /\ (ret'[u].name # "" /\ IsGap(ret'[u].name)) =>
                  /\ ret'[u].status = "placeholder"
                  /\ ret'[u].val = "${" \o ret'[u].name \o "}"
            /\ gv'[u].pc # "none" => ~IsGap(gv'[u].name)
        /\ draws' # draws =>
              /\ indices' = indices
              /\ groupIndex' = groupIndex
              /\ lockHolder' = lockHolder
        /\ (\/ indices' # indices
            \/ groupIndex' # groupIndex
            \/ \E u \in Users : /\ ret'[u].status = "exhausted"
                                 /\ ret[u].status # "exhausted") =>
              \E u \in Users : /\ gv[u].pc \in {"read", "take"}
                               /\ gv'[u] # gv[u]
                               /\ ~IsGap(gv[u].name)
      ]_vars

\* C22 witness: one user was answered the placeholder of an unregistered
\* name and the other that of a variable without values, after a cursor had
\* moved.
C22_Witness ==
    /\ \E u \in Users :
          /\ ret[u].name \notin DOMAIN variables
          /\ ret[u].val = "${Missing}"
    /\ \E u \in Users :
          /\ ret[u].name \in DOMAIN variables
          /\ variables[ret[u].name].values = <<>>
          /\ ret[u].status = "placeholder"
    /\ \E n \in VarNames : indices[n] > 0
    /\ \E g \in DOMAIN groupIndex : groupIndex[g] > 0

(***************************************************************************)
(* Claims about the whole of a run, checked under SpecSystem.              *)
(***************************************************************************)

\* where a user stands while it polls the gate of run_script
PollPcs == {"task", "gate_held", "gate_sleep"}

\* C23: a user starts an iteration of its script only after it found its
\* scenario in the active set while it held the scenario lock; a poll that
\* finds the scenario inactive ends where it began: the user executes no
\* transaction, draws no variable and takes no slot of a throughput timer.
C23_IterationOnlyWhenActiveAtCheck ==
    [][ /\ \A u \in Users :
            /\ (pc[u] = "gate_held" /\ pc'[u] # pc[u]) =>
                  /\ SCENARIO_LOCK = u
                  /\ pc'[u] = IF ScenarioOf[u] \in ACTIVE_SCENARIOS
                              THEN "admitted" ELSE "gate_sleep"
            /\ (pc'[u] = "admitted" /\ pc[u] # "admitted") =>
                  /\ pc[u] = "gate_held"
                  /\ ScenarioOf[u] \in ACTIVE_SCENARIOS
            /\ ex'[u].iteration # ex[u].iteration =>
                  /\ pc[u] = "admitted"
                  /\ gateSeen[u].seen
            /\ pc[u] = "task" => pc'[u] \in {"task", "gate_held"}
            /\ pc[u] = "gate_sleep" => pc'[u] \in {"gate_sleep", "task"}
            /\ pc[u] \in PollPcs =>
                  /\ ex'[u] = ex[u]
                  /\ xh'[u] = xh[u]
                  /\ gv'[u] = gv[u]
                  /\ ret'[u] = ret[u]
                  /\ tw'[u] = tw[u]
        /\ draws' # draws => \E w \in Users : pc[w] = "resolve"
        /\ calls' # calls => \E w \in Users : pc[w] = "gate"
        /\ timers' # timers => \E w \in Users : pc[w] \in {"new_timer", "stamp"}
        /\ (indices' # indices \/ groupIndex' # groupIndex) =>
              \E w \in Users : pc[w] = "drawing"
      ]_vars

\* C23 witness: one user sleeps in the gate, having found its scenario
\* inactive and having executed nothing, while the other, admitted, has
\* dispatched a transaction.
C23_Witness ==
    \E u, w \in Users :
        /\ pc[u] = "gate_sleep"
        /\ ~gateSeen[u].seen
        /\ xh[u].started = {}
        /\ pc[w] = "correlate"
        /\ gateSeen[w].seen
        /\ At(w) \in xh[w].sent

(***************************************************************************)
(* Claims about the locks, checked under SpecRun and SpecSystem.           *)
(***************************************************************************)

\* C24: every change of shared mutable state is made by a context that
\* holds the lock of that resource: the variable cursors and the group
\* cursors under the variable's or the group's lock, the correlation maps
\* under the engine's lock, the state of a throughput timer and its lazy
\* creation under the timer's lock.
C24_MutationsHoldTheLock ==
    [][ /\ \A n \in VarNames :
              indices'[n] # indices[n] => lockHolder[n] \in Users
        /\ \A g \in DOMAIN groupIndex :
              groupIndex'[g] # groupIndex[g] => lockHolder[g] \in Users
        /\ global_store' # global_store => lockHolder[CorrLock] \in Users
        /\ session_store' # session_store => lockHolder[CorrLock] \in Users
        /\ (timers' # timers \/ locks' # locks) =>
              \E u \in Users :
                  /\ tw[u].lock \in DOMAIN lockObject
                  /\ lockObject[tw[u].lock] = u
      ]_vars

\* the contexts that take locks
Contexts == Users \cup Admins \cup CopyReaders

\* the number of locks a context holds
LocksHeld(c) ==
    (IF SCENARIO_LOCK = c THEN 1 ELSE 0)
    + Cardinality({l \in LockIds : lockHolder[l] = c})
    + Cardinality({o \in DOMAIN lockObject : lockObject[o] = c})

\* the holder of a lock stands inside the with block of that lock, at a
\* statement that takes no lock
HolderInsideItsBlock ==
    /\ \A u \in Users :
          /\ SCENARIO_LOCK = u => pc[u] \in {"gate_held", "gate_sleep"}
          /\ lockHolder[CorrLock] = u => pc[u] = "corr_store"
          /\ \A l \in LockIds \ {CorrLock} :
                lockHolder[l] = u =>
                    /\ pc[u] = "drawing"
                    /\ gv[u].lock = l
                    /\ gv[u].pc \in {"read", "take"}
          /\ \A o \in DOMAIN lockObject :
                lockObject[o] = u =>
                    /\ pc[u] \in {"locked", "sleep", "stamp"}
                    /\ tw[u].lock = o
    /\ \A a \in Admins :
          SCENARIO_LOCK = a => admin[a].pc \in {"clear", "update"}
    /\ \A r \in CopyReaders :
          SCENARIO_LOCK = r => reader[r].pc = "held"

\* the holder of a lock can take its next step whatever the other contexts
\* do (a holder asleep takes it once the time it sleeps for has passed)
HolderCanProceed ==
    /\ \A u \in Users :
          LocksHeld(u) > 0 => (pc[u] = "sleep" \/ ENABLED UserStep(u))
    /\ SCENARIO_LOCK = Handler => ENABLED HandlerStep({})
    /\ SCENARIO_LOCK = "tick" => ENABLED ShapeStep

\* C25: no context holds more than one lock at a time, every lock that is
\* held is held by a context that is inside that lock's with block at a
\* statement that takes no other lock, and that context can go on: no
\* state of users, shape callback and administrative request is a deadlock.
C25_AtMostOneLockNoDeadlock ==
    /\ \A c \in Contexts : LocksHeld(c) <= 1
    /\ HolderInsideItsBlock
    /\ HolderCanProceed

\* C25 witness: a user sleeps in the gate with the scenario lock, the
\* administrative request and the shape callback wait for that lock, and
\* the other user holds a lock of its own.
C25_Witness ==
    \E u, w \in Users :
        /\ SCENARIO_LOCK = u
        /\ pc[u] = "gate_sleep"
        /\ admin[Handler].pc = "lock"
        /\ reader["tick"].pc = "lock"
        /\ LocksHeld(w) = 1
        /\ w # u

(***************************************************************************)
(* Claims about the progress of an activation, checked under SpecLive.     *)
(***************************************************************************)

\* C26: an administrative request with a non-empty selection that asks for
\* the scenario lock eventually holds it and replaces the active set, when
\* every context is weakly fair, the users that poll the gate of an
\* inactive scenario and sleep inside the lock included.
C26_ActivationIsEventuallyApplied ==
    (admin[Handler].pc = "lock") ~> (admin[Handler].pc = "respond")


(***************************************************************************)
(* Claims about deactivation under running users, checked under SpecGate.  *)
(***************************************************************************)

\* C27: once an activation has left scenario S out of the active set, a user
\* of S is admitted to no iteration until S is active again: its polls end
\* in the sleep. What it still dispatches belongs to the one iteration it was
\* admitted to while S was active (the check is made once, under the lock,
\* and the script runs after the lock is released): each transaction of that
\* iteration at most once, and no transaction of a later one.
C27_RemovalStopsNewIterations ==
    [][ \A u \in Users :
          /\ (pc[u] = "gate_held" /\ pc'[u] # pc[u]
                 /\ ScenarioOf[u] \notin ACTIVE_SCENARIOS) =>
                /\ pc'[u] = "gate_sleep"
                /\ ~gateSeen'[u].seen
          /\ (gateSeen'[u].seen /\ ~gateSeen[u].seen) =>
                /\ ScenarioOf[u] \in ACTIVE_SCENARIOS
                /\ SCENARIO_LOCK = u
                /\ pc'[u] = "admitted"
          /\ pc[u] \notin PollPcs => gateSeen[u].seen
          /\ ex'[u].iteration # ex[u].iteration =>
                /\ pc[u] = "admitted"
                /\ ex'[u].iteration = ex[u].iteration + 1
                /\ pc'[u] = "request"
          /\ (pc[u] = "admitted" /\ pc'[u] # pc[u]) =>
                ex'[u].iteration = ex[u].iteration + 1
          /\ xh'[u].sent # xh[u].sent =>
                /\ xh'[u].sent = xh[u].sent \cup {At(u)}
                /\ At(u) \notin xh[u].sent
                /\ ex[u].txn \in 1..Len(script)
                /\ gateSeen[u].seen
          /\ (pc[u] \notin PollPcs /\ pc'[u] \in PollPcs) =>
                /\ pc'[u] = "task"
                /\ ex'[u].iteration = ex[u].iteration
      ]_vars

\* C27 witness: a user admitted while its scenario was active has dispatched
\* the first transaction of its iteration and is about to dispatch the second
\* one after an activation that selected the other scenario only; the user
\* of that scenario has passed the gate since.
C27_Witness ==
    \E u, w \in Users :
        /\ ScenarioOf[u] \notin ACTIVE_SCENARIOS
        /\ ScenarioOf[u] \notin committed
        /\ admin[Handler].pc = "done"
        /\ admin[Handler].response.active = {ScenarioOf[w]}
        /\ gateSeen[u].seen
        /\ pc[u] = "resolve"
        /\ ex[u].txn = 2
        /\ ex[u].todo = <<>>
        /\ <<ex[u].iteration, 1>> \in xh[u].sent
        /\ w # u
        /\ pc[w] = "admitted"
        /\ gateSeen[w].seen


(***************************************************************************)
(* Claims about the cursors of unlike group members, checked under         *)
(* SpecMixed.                                                              *)
(***************************************************************************)

\* the member whose draw advances the cursor of group g
Advancing(g) == Last(combination_groups[g].variables)

\* C28 as stated: the cursor a variable is drawn with, the shared one for a
\* member of a group, is between 0 and the length of that variable's values.
C28_CursorWithinOwnLength ==
    \A n \in VarNames : CursorOf(n) \in 0..Len(variables[n].values)

\* C28: the cursor of a variable of its own is between 0 and the length of
\* its values, the cursor of a group between 0 and the length of the member
\* that advances it (it may stand beyond a shorter member's length); no draw
\* reads an index outside the values of the variable drawn, and a draw that
\* finds its cursor at or beyond the length of its own values resets the
\* cursor to 0 and reads index 0 if its variable recycles, and signals
\* exhaustion without touching the cursor if not.
C28_CursorsAndReadsInRange ==
    [][ /\ \A n \in VarNames : indices'[n] \in 0..Len(variables[n].values)
        /\ \A g \in DOMAIN combination_groups :
              groupIndex'[g] \in 0..Len(variables[Advancing(g)].values)
        /\ \A u \in Users :
              /\ gv'[u].pc = "take" =>
                    gv'[u].idx \in 0..(Len(variables[gv'[u].name].values) - 1)
              /\ (ret'[u].status = "value" /\ ret'[u] # ret[u]) =>
                    /\ ret'[u].idx \in
                          0..(Len(variables[ret'[u].name].values) - 1)
                    /\ ret'[u].val =
                          variables[ret'[u].name].values[ret'[u].idx + 1]
              /\ (gv[u].pc = "read" /\ gv'[u] # gv[u]
                     /\ CursorOf(gv[u].name)
                           >= Len(variables[gv[u].name].values)) =>
                    IF variables[gv[u].name].recycle_on_eof
                    THEN /\ gv'[u].pc = "take"
                         /\ gv'[u].idx = 0
                         /\ IF InGroup(gv[u].name)
                            THEN groupIndex'[gv[u].lock] = 0
                            ELSE indices'[gv[u].name] = 0
                    ELSE /\ ret'[u].status = "exhausted"
                         /\ gv'[u].pc = "none"
                         /\ indices' = indices
                         /\ groupIndex' = groupIndex
      ]_vars

\* C28 witness: in a group whose first member is shorter than the last and
\* does not recycle while the last does, one user has read the last member at
\* an index the first member does not have, and the other, drawing the first
\* member with the shared cursor beyond its length, was signalled exhaustion.
C28_Witness ==
    \E u, w \in Users :
        /\ Len(variables.AddressLine1.values) < Len(variables.LastName.values)
        /\ ~variables.AddressLine1.recycle_on_eof
        /\ variables.LastName.recycle_on_eof
        /\ groupIndex.address_data > Len(variables.AddressLine1.values)
        /\ ret[u].name = "AddressLine1"
        /\ ret[u].status = "exhausted"
        /\ ret[w].name = "LastName"
        /\ ret[w].status = "value"
        /\ ret[w].idx >= Len(variables.AddressLine1.values)

====
